---- MODULE Spec2Model ----
(***************************************************************************)
(* Model of the request-tracing logger of package logger                   *)
(* (src/logger/logger.go): the context carrier, the mandatory and simple   *)
(* layouts, the console/file writer, construction and Close, and the       *)
(* Start/Stop lifecycle.                                                   *)
(*                                                                         *)
(* Strings are TLA+ strings.  A formatted line is the sequence of its      *)
(* " | "-joined parts; a part is a record naming its label and carrying    *)
(* the values printed into it.  Time is counted in ticks of half a         *)
(* millisecond, so that truncation to whole milliseconds is visible.       *)
(***************************************************************************)
EXTENDS Integers, Sequences, FiniteSets

VARIABLES
    lg,         \* the *Logger returned by StartLogger (nil before / on error)
    lgErr,      \* the error returned by StartLogger ("" is a nil error)
    built,      \* the StartLogger call made: its config, the outcome of os.OpenFile
    ctx,        \* the context.Context the application currently holds
    now,        \* the clock read by time.Now(), in ticks
    uuidCount,  \* number of ids uuid.NewV7 has produced so far
    emitted,    \* what the most recent logging call rendered and wrote
    call,       \* that call's inputs: carrier, config, clock, logger
    sinks,      \* what has reached os.Stdout, os.Stderr and the file, in order
    store,      \* the carriers the application keeps references to
    mw,         \* the request StandardHTTPMiddleware is serving
    threads     \* goroutines inside a logging call

vars == <<lg, lgErr, built, ctx, now, uuidCount, emitted, call, sinks, store, mw, threads>>

\* The state outside a single-goroutine run on one carrier.
aux == <<store, mw, threads>>

---------------------------------------------------------------------------
(* Bounds *)

MaxTime == 3        \* the clock runs from 0 to MaxTime ticks
MaxUUID == 2        \* ids generated in one run
MaxChain == 1       \* With* derivations applied to a carrier before Start
MaxLines == 2       \* logging calls in one run, each one line per sink
MaxWrites == 2      \* calls a handler makes on its response writer
MaxCarriers == 4    \* carriers the application keeps references to
MaxThreads == 2     \* goroutines logging through one logger

TicksPerMs == 2     \* clock ticks in one millisecond

---------------------------------------------------------------------------
(* Context keys, flags, log types *)

UUIDKey == "logger_uuid"
ServiceNameKey == "logger_service_name"
EndpointKey == "logger_endpoint"
MethodKey == "logger_method"
TraceIDKey == "logger_trace_id"
TransactionIDKey == "logger_transaction_id"
StartTimeKey == "logger_start_time"

StringKeys == {UUIDKey, ServiceNameKey, EndpointKey, MethodKey, TraceIDKey,
               TransactionIDKey}

FlagStart == "START"
FlagStop == "STOP"

LogTypeConsole == "console"
LogTypeFile == "file"
LogTypeAll == "all"

---------------------------------------------------------------------------
(* context.Context: a nil interface value, or a chain of WithValue layers   *)
(* over context.Background(); the last layer is the most recently added.    *)

NilCtx == [nil |-> TRUE, chain |-> <<>>]
Background == [nil |-> FALSE, chain |-> <<>>]

Layer(key, val, t) == [key |-> key, val |-> val, t |-> t]

WithValue(c, key, val, t) ==
    [nil |-> FALSE, chain |-> Append(c.chain, Layer(key, val, t))]

\* ctx.Value(key): the value of the nearest layer that set key.
Value(c, key) ==
    LET idx == {i \in 1..Len(c.chain) : c.chain[i].key = key}
        top == CHOOSE i \in idx : \A j \in idx : j <= i
    IN  IF idx = {} THEN [ok |-> FALSE, val |-> "", t |-> 0]
        ELSE [ok |-> TRUE, val |-> c.chain[top].val, t |-> c.chain[top].t]

OrBackground(c) == IF c.nil THEN Background ELSE c

WithUUID(c, uuid) == WithValue(OrBackground(c), UUIDKey, uuid, 0)
WithServiceName(c, serviceName) ==
    WithValue(OrBackground(c), ServiceNameKey, serviceName, 0)
WithEndpoint(c, endpoint) == WithValue(OrBackground(c), EndpointKey, endpoint, 0)
WithMethod(c, method) == WithValue(OrBackground(c), MethodKey, method, 0)
WithTraceID(c, traceID) == WithValue(OrBackground(c), TraceIDKey, traceID, 0)
WithTransactionID(c, transactionID) ==
    WithValue(OrBackground(c), TransactionIDKey, transactionID, 0)
WithStartTime(c, startTime) ==
    WithValue(OrBackground(c), StartTimeKey, "", startTime)

\* Mutant: a key that is not set reads as the empty string.
getValueFromContextNoDefault(c, key, defaultValue) ==
    IF c.nil THEN "" ELSE Value(c, key).val

getValueFromContext(c, key, defaultValue) ==
    IF c.nil THEN defaultValue
    ELSE LET v == Value(c, key)
         IN  IF v.ok /\ v.val # "" THEN v.val ELSE defaultValue

getStartTimeFromContext(c) ==
    IF c.nil THEN [t |-> 0, ok |-> FALSE]
    ELSE LET v == Value(c, StartTimeKey)
         IN  IF v.ok THEN [t |-> v.t, ok |-> TRUE] ELSE [t |-> 0, ok |-> FALSE]

---------------------------------------------------------------------------
(* Identifier provider.  uuid.NewV7 returns a string never returned before, *)
(* or fails; cnt counts the ids produced so far.                            *)

GenNames == <<"g1", "g2", "g3", "g4", "g5", "g6", "g7", "g8">>

\* generateUUID with the provider's outcome ok: [id, cnt].
generateUUID(cnt, ok) ==
    IF ok THEN [id |-> GenNames[cnt + 1], cnt |-> cnt + 1]
    ELSE [id |-> "unknown", cnt |-> cnt]

\* Mutant: the id of the carrier is not looked up.
getUUIDFromContextAlwaysNew(c, cnt, ok) == generateUUID(cnt, ok)

getUUIDFromContext(c, cnt, ok) ==
    IF c.nil THEN generateUUID(cnt, ok)
    ELSE LET v == Value(c, UUIDKey)
         IN  IF v.ok /\ v.val # "" THEN [id |-> v.val, cnt |-> cnt]
             ELSE generateUUID(cnt, ok)

\* WithNewUUID: [ctx, cnt].
WithNewUUID(c, cnt, ok) ==
    LET g == generateUUID(cnt, ok)
    IN  [ctx |-> WithUUID(OrBackground(c), g.id), cnt |-> g.cnt]

---------------------------------------------------------------------------
(* Logger construction and Close *)

\* A *LoggerConfig: nil, or LogFile and Type.
NilConfig == [nil |-> TRUE, LogFile |-> "", Type |-> ""]
Config(logFile, type) == [nil |-> FALSE, LogFile |-> logFile, Type |-> type]

\* A *Logger.  file is "nil", "open" or "closed" (an *os.File after Close).
NoLogger ==
    [nil |-> TRUE, enableConsole |-> FALSE, useFile |-> FALSE, file |-> "nil",
     hostname |-> "", ipAddress |-> ""]

ErrLogFileRequired == "LogFile is required when Type is 'file' or 'all'"
ErrOpenFailed == "failed to open log file"

\* The Type after the defaulting of a nil config and of an empty Type.
EffectiveType(config) ==
    IF config.nil THEN LogTypeConsole
    ELSE IF config.Type = ""
         THEN (IF config.LogFile # "" THEN LogTypeAll ELSE LogTypeConsole)
         ELSE config.Type

EffectiveLogFile(config) == IF config.nil THEN "" ELSE config.LogFile

\* Mutant: the config is not validated and a failed open is not returned.
StartLoggerUnchecked(config, openOk, host, ip) ==
    LET type == EffectiveType(config)
        logFile == EffectiveLogFile(config)
        enableFile == type = LogTypeFile \/ type = LogTypeAll
        opened == enableFile /\ logFile # "" /\ openOk
    IN  [logger |-> [nil |-> FALSE,
                     enableConsole |-> type = LogTypeConsole \/ type = LogTypeAll,
                     useFile |-> opened,
                     file |-> IF opened THEN "open" ELSE "nil",
                     hostname |-> host, ipAddress |-> ip],
         err |-> ""]

\* StartLogger: [logger, err].  openOk is the outcome of os.OpenFile, host and
\* ip are what getHostname and getLocalIP return.
StartLogger(config, openOk, host, ip) ==
    LET type == EffectiveType(config)
        logFile == EffectiveLogFile(config)
        enableConsole == type = LogTypeConsole \/ type = LogTypeAll
        enableFile == type = LogTypeFile \/ type = LogTypeAll
        logger == [nil |-> FALSE, enableConsole |-> enableConsole,
                   useFile |-> FALSE, file |-> "nil",
                   hostname |-> host, ipAddress |-> ip]
    IN  IF (type = LogTypeFile \/ type = LogTypeAll) /\ logFile = ""
        THEN [logger |-> NoLogger, err |-> ErrLogFileRequired]
        ELSE IF enableFile /\ logFile # ""
             THEN IF ~openOk
                  THEN [logger |-> NoLogger, err |-> ErrOpenFailed]
                  ELSE [logger |-> [logger EXCEPT !.file = "open",
                                                  !.useFile = TRUE],
                        err |-> ""]
             ELSE [logger |-> logger, err |-> ""]

\* Close: the file handle is closed when there is one; the field keeps
\* pointing at the closed handle.
Close(l) ==
    IF l.file # "nil" THEN [l EXCEPT !.file = "closed"] ELSE l

---------------------------------------------------------------------------
(* Rendering *)

Part(seg, a, b, n) == [seg |-> seg, a |-> a, b |-> b, n |-> n]

\* fmt.Sprintf("%dms", n): the rendered number; "" is the empty sequence.
FmtMs(n) == <<n>>
EmptyText == <<>>

\* time.Duration.Milliseconds: integer division truncating toward zero.
Milliseconds(d) ==
    IF d >= 0 THEN d \div TicksPerMs ELSE -((-d) \div TicksPerMs)

\* now.Format("2006-01-02 15:04:05.000"): the time to the millisecond.
FormatTime(t) == t \div TicksPerMs

LogEntry(timestamp, level, transactionID, serviceName, endpoint, methodType, executionTime, serverIP, traceID, body, flag, message) ==
    [Timestamp |-> timestamp, LogLevel |-> level,
     TransactionID |-> transactionID, ServiceName |-> serviceName,
     Endpoint |-> endpoint, MethodType |-> methodType,
     ExecutionTime |-> executionTime, ServerIP |-> serverIP,
     TraceID |-> traceID, Body |-> body, Flag |-> flag, Message |-> message]

NoEntry == LogEntry(0, "", "", "", "", "", EmptyText, "", "", "", "", "")

FlagParts(entry) ==
    IF entry.Flag # "" THEN <<Part("Flag", entry.Flag, "", 0)>> ELSE <<>>

\* Mutant: the Service part is rendered whatever the name.
ServicePartsAlways(entry) == <<Part("Service", entry.ServiceName, "", 0)>>

ServiceParts(entry) ==
    IF entry.ServiceName # "unknown"
    THEN <<Part("Service", entry.ServiceName, "", 0)>> ELSE <<>>

\* Mutant: the Route fallback is missing.
MethodRoutePartsNoRoute(entry) ==
    IF entry.MethodType # "unknown" /\ entry.Endpoint # "unknown"
    THEN <<Part("MethodRoute", entry.MethodType, entry.Endpoint, 0)>>
    ELSE IF entry.MethodType # "unknown"
         THEN <<Part("Method", entry.MethodType, "", 0)>>
         ELSE <<>>

MethodRouteParts(entry) ==
    IF entry.MethodType # "unknown" /\ entry.Endpoint # "unknown"
    THEN <<Part("MethodRoute", entry.MethodType, entry.Endpoint, 0)>>
    ELSE IF entry.MethodType # "unknown"
         THEN <<Part("Method", entry.MethodType, "", 0)>>
         ELSE IF entry.Endpoint # "unknown"
              THEN <<Part("Route", entry.Endpoint, "", 0)>>
              ELSE <<>>

TxnIDParts(entry) ==
    IF entry.TransactionID # ""
    THEN <<Part("TxnID", entry.TransactionID, "", 0)>> ELSE <<>>

\* Mutant: the trace id is not compared with the transaction id.
TraceIDPartsNoCompare(entry) ==
    IF entry.TraceID # ""
    THEN <<Part("TraceID", entry.TraceID, "", 0)>> ELSE <<>>

TraceIDParts(entry) ==
    IF entry.TraceID # "" /\ entry.TraceID # entry.TransactionID
    THEN <<Part("TraceID", entry.TraceID, "", 0)>> ELSE <<>>

\* Mutant: "0ms" is not suppressed.
DurationPartsKeepZero(entry) ==
    IF entry.ExecutionTime # EmptyText
    THEN <<Part("Duration", "", "", entry.ExecutionTime[1])>> ELSE <<>>

DurationParts(entry) ==
    IF entry.ExecutionTime # FmtMs(0) /\ entry.ExecutionTime # EmptyText
    THEN <<Part("Duration", "", "", entry.ExecutionTime[1])>> ELSE <<>>

BodyParts(entry) ==
    IF entry.Body # "" THEN <<Part("Body", entry.Body, "", 0)>> ELSE <<>>

formatMandatoryMessage(entry) ==
    <<Part("Timestamp", "", "", entry.Timestamp),
      Part("Level", entry.LogLevel, "", 0)>>
    \o FlagParts(entry)
    \o ServiceParts(entry)
    \o MethodRouteParts(entry)
    \o TxnIDParts(entry)
    \o TraceIDParts(entry)
    \o DurationParts(entry)
    \o <<Part("IP", entry.ServerIP, "", 0)>>
    \o BodyParts(entry)
    \o <<Part("Message", entry.Message, "", 0)>>

---------------------------------------------------------------------------
(* Writing *)

\* Mutant: every level goes to the standard stream.
ConsoleStreamStdout(level) == "stdout"

\* The console switch on level: the stream written and the ANSI color.
ConsoleStream(level) == IF level = "ERROR" THEN "stderr" ELSE "stdout"

\* Mutant: a level outside the four is printed in the color of INFO.
ConsoleColorDefaultCyan(level) ==
    CASE level = "ERROR" -> "red"
      [] level = "WARNING" -> "yellow"
      [] level = "SUCCESS" -> "green"
      [] OTHER -> "cyan"

ConsoleColor(level) ==
    CASE level = "ERROR" -> "red"
      [] level = "WARNING" -> "yellow"
      [] level = "SUCCESS" -> "green"
      [] level = "INFO" -> "cyan"
      [] OTHER -> "none"

\* Mutant: enableConsole is not consulted.
WriteConsoleAlways(l, level) == ConsoleStream(level)

\* The console branch: "none" when console output is off.
WriteConsole(l, level) ==
    IF l.enableConsole THEN ConsoleStream(level) ELSE "none"

\* The file branch: fmt.Fprintln(l.file, formatted) is attempted when useFile
\* is set and the handle is non-nil; on a closed handle it returns an error
\* and writes nothing.
WriteFile(l) ==
    IF l.useFile /\ l.file # "nil"
    THEN (IF l.file = "open" THEN "written" ELSE "failed")
    ELSE "none"

\* The error of the file write reaches the caller or the operator.  Both
\* writers discard the result of fmt.Fprintln and return nothing.
Surfaced(fileResult) == FALSE

\* The bytes of one write: an ANSI color code ("none" when there is none),
\* the text, whether the reset code follows, whether a newline ends it.
NoBytes == [prefix |-> "none", text |-> <<>>, reset |-> FALSE, newline |-> FALSE]

\* fmt.Fprintf(stream, "\033[..m%s\033[0m\n", formatted) for the four levels,
\* fmt.Println(formatted) for any other.
ConsoleBytes(l, level, formatted) ==
    IF ~l.enableConsole THEN NoBytes
    ELSE [prefix |-> ConsoleColor(level), text |-> formatted,
          reset |-> ConsoleColor(level) # "none", newline |-> TRUE]

\* fmt.Fprintln(l.file, formatted)
FileBytes(l, formatted) ==
    IF WriteFile(l) # "written" THEN NoBytes
    ELSE [prefix |-> "none", text |-> formatted, reset |-> FALSE,
          newline |-> TRUE]

Emission(op, layout, l, level, entry, formatted) ==
    [op |-> op, layout |-> layout, level |-> level, entry |-> entry,
     formatted |-> formatted,
     stream |-> WriteConsole(l, level),
     color |-> IF l.enableConsole THEN ConsoleColor(level) ELSE "none",
     console |-> ConsoleBytes(l, level, formatted),
     file |-> WriteFile(l),
     filed |-> FileBytes(l, formatted),
     surfaced |-> Surfaced(WriteFile(l))]

NoEmission ==
    [op |-> "none", layout |-> "none", level |-> "", entry |-> NoEntry,
     formatted |-> <<>>, stream |-> "none", color |-> "none",
     console |-> NoBytes, file |-> "none", filed |-> NoBytes,
     surfaced |-> FALSE]

\* LogWithMandatoryFields at time t: [emit, cnt].  oks are the outcomes of the
\* two id generations the call may make.
LogWithMandatoryFields(op, l, c, level, flag, message, body, t, cnt, oks) ==
    LET u1 == getUUIDFromContext(c, cnt, oks[1])
        u2 == getUUIDFromContext(c, u1.cnt, oks[2])
        transactionID == getValueFromContext(c, TransactionIDKey, u1.id)
        traceID == getValueFromContext(c, TraceIDKey, u2.id)
        serviceName == getValueFromContext(c, ServiceNameKey, "unknown")
        endpoint == getValueFromContext(c, EndpointKey, "unknown")
        methodType == getValueFromContext(c, MethodKey, "unknown")
        st == getStartTimeFromContext(c)
        executionTime == IF st.ok THEN FmtMs(Milliseconds(t - st.t))
                         ELSE FmtMs(0)
        entry == LogEntry(FormatTime(t), level, transactionID, serviceName,
                          endpoint, methodType, executionTime, l.ipAddress,
                          traceID, body, flag, message)
    IN  [emit |-> Emission(op, "mandatory", l, level, entry,
                           formatMandatoryMessage(entry)),
         cnt |-> u2.cnt]

\* runtime.Caller(skip) on a call stack listed from the innermost frame.
Caller(stack, skip) ==
    IF skip + 1 <= Len(stack) THEN stack[skip + 1] ELSE "unknown"

getCallerInfo(stack, skip) == Caller(<<"getCallerInfo">> \o stack, skip)

\* formatMessage: the simple layout.  stack is the call stack above
\* getCallerInfo, innermost first.
formatMessage(l, level, uuid, message, stack, t) ==
    <<Part("Timestamp", "", "", FormatTime(t)),
      Part("Level", level, "", 0),
      Part("UUID", uuid, "", 0),
      Part("Host", l.hostname, l.ipAddress, 0),
      Part("Caller", getCallerInfo(<<"formatMessage">> \o stack, 4), "", 0),
      Part("Message", message, "", 0)>>

\* writeToBoth called from the frames outer (innermost first).
writeToBoth(op, l, level, uuid, message, outer, t) ==
    Emission(op, "simple", l, level, NoEntry,
             formatMessage(l, level, uuid, message, <<"writeToBoth">> \o outer, t))

---------------------------------------------------------------------------
(* Lifecycle *)

StartConfig(serviceName, endpoint, method, transactionID, traceID, body, message, level) ==
    [ServiceName |-> serviceName, Endpoint |-> endpoint, Method |-> method,
     TransactionID |-> transactionID, TraceID |-> traceID, Body |-> body,
     Message |-> message, Level |-> level]

\* "Generate or use existing UUID": [ctx, cnt].
SeedIDs(c, config, cnt, ok) ==
    IF config.TransactionID = "" THEN WithNewUUID(c, cnt, ok)
    ELSE [ctx |-> WithTransactionID(WithUUID(c, config.TransactionID),
                                    config.TransactionID),
          cnt |-> cnt]

\* Mutant: config.Level is not used.
StartLevelInfo(config) == "INFO"

StartLevel(config) == IF config.Level = "" THEN "INFO" ELSE config.Level
StartMessage(config) ==
    IF config.Message = "" THEN "Request started" ELSE config.Message

LogStart(op, l, c, level, message, body, t, cnt, oks) ==
    LogWithMandatoryFields(op, l, c, level, FlagStart, message, body, t, cnt, oks)

LogStop(op, l, c, level, message, body, t, cnt, oks) ==
    LogWithMandatoryFields(op, l, c, level, FlagStop, message, body, t, cnt, oks)

LogWithBody(op, l, c, level, message, body, t, cnt, oks) ==
    LogWithMandatoryFields(op, l, c, level, "", message, body, t, cnt, oks)

\* Start: the start-time is read at t0, the START line is rendered at t1.
\* ok is the outcome of the id generation, oks those of the rendering.
\* [ctx, emit, cnt]
Start(l, c, config, t0, t1, cnt, ok, oks) ==
    LET c0 == OrBackground(c)
        s == SeedIDs(c0, config, cnt, ok)
        c1 == IF config.ServiceName # ""
              THEN WithServiceName(s.ctx, config.ServiceName) ELSE s.ctx
        c2 == IF config.Endpoint # ""
              THEN WithEndpoint(c1, config.Endpoint) ELSE c1
        c3 == IF config.Method # "" THEN WithMethod(c2, config.Method) ELSE c2
        c4 == IF config.TraceID # "" THEN WithTraceID(c3, config.TraceID) ELSE c3
        c5 == WithStartTime(c4, t0)
        log == LogStart("Start", l, c5, StartLevel(config), StartMessage(config),
                        config.Body, t1, s.cnt, oks)
    IN  [ctx |-> c5, emit |-> log.emit, cnt |-> log.cnt]

\* An *http.Request: nil, or its Method, URL.Path, Body content ("" for a nil
\* or empty body) and its own context.
NilRequest == [nil |-> TRUE, Method |-> "", Path |-> "", Body |-> "",
               ctx |-> Background]
Request(method, path, body, c) ==
    [nil |-> FALSE, Method |-> method, Path |-> path, Body |-> body, ctx |-> c]

\* Mutant: the endpoint is not taken from the request.
WithHTTPRequestMethodOnly(c, r) ==
    LET c0 == OrBackground(c)
        c1 == IF r.Method # "" THEN WithMethod(c0, r.Method) ELSE c0
    IN  IF r.nil THEN c0 ELSE c1

WithHTTPRequest(c, r) ==
    LET c0 == OrBackground(c)
        c1 == IF r.Method # "" THEN WithMethod(c0, r.Method) ELSE c0
        c2 == IF r.Path # "" THEN WithEndpoint(c1, r.Path) ELSE c1
    IN  IF r.nil THEN c0 ELSE c2

StartFromRequest(l, r, config, t0, t1, cnt, ok, oks) ==
    LET c0 == WithHTTPRequest(Background, r)
        c1 == IF config.Method # "" THEN WithMethod(c0, config.Method) ELSE c0
        c2 == IF config.Endpoint # ""
              THEN WithEndpoint(c1, config.Endpoint) ELSE c1
        c3 == IF config.ServiceName # ""
              THEN WithServiceName(c2, config.ServiceName) ELSE c2
        s == SeedIDs(c3, config, cnt, ok)
        c4 == IF config.TraceID # ""
              THEN WithTraceID(s.ctx, config.TraceID) ELSE s.ctx
        c5 == WithStartTime(c4, t0)
        body == IF config.Body = "" /\ ~r.nil /\ r.Body # ""
                THEN r.Body ELSE config.Body
        log == LogStart("StartFromRequest", l, c5, StartLevel(config),
                        StartMessage(config), body, t1, s.cnt, oks)
    IN  [ctx |-> c5, emit |-> log.emit, cnt |-> log.cnt]

\* An HTTPRequestInfo: a nil interface, or what its methods return.
NilRequestInfo == [nil |-> TRUE, Method |-> "", Path |-> "", Body |-> "",
                   Context |-> Background]
RequestInfo(method, path, body, c) ==
    [nil |-> FALSE, Method |-> method, Path |-> path, Body |-> body,
     Context |-> c]

\* StandardHTTPRequest{req: r}
StandardHTTPRequest(r) ==
    RequestInfo(IF r.nil THEN "" ELSE r.Method,
                IF r.nil THEN "" ELSE r.Path,
                "",
                IF r.nil THEN Background ELSE r.ctx)

\* StartFromHTTPRequestInfo on a non-nil reqInfo.
StartFromHTTPRequestInfo(l, reqInfo, config, t0, t1, cnt, ok, oks) ==
    LET c0 == reqInfo.Context
        c1 == IF reqInfo.Method # "" THEN WithMethod(c0, reqInfo.Method) ELSE c0
        c2 == IF reqInfo.Path # "" THEN WithEndpoint(c1, reqInfo.Path) ELSE c1
        c3 == IF config.Method # "" THEN WithMethod(c2, config.Method) ELSE c2
        c4 == IF config.Endpoint # ""
              THEN WithEndpoint(c3, config.Endpoint) ELSE c3
        c5 == IF config.ServiceName # ""
              THEN WithServiceName(c4, config.ServiceName) ELSE c4
        s == SeedIDs(c5, config, cnt, ok)
        c6 == IF config.TraceID # ""
              THEN WithTraceID(s.ctx, config.TraceID) ELSE s.ctx
        c7 == WithStartTime(c6, t0)
        body == IF config.Body = "" THEN reqInfo.Body ELSE config.Body
        log == LogStart("StartFromHTTPRequestInfo", l, c7, StartLevel(config),
                        StartMessage(config), body, t1, s.cnt, oks)
    IN  [ctx |-> c7, emit |-> log.emit, cnt |-> log.cnt]

\* Mutant: the STOP line is rendered from an empty carrier.
StopOnBackground(l, c, level, message, body, t, cnt, oks) ==
    LogWithMandatoryFields("Stop", l, Background,
                           IF level = "" THEN "SUCCESS" ELSE level, FlagStop,
                           IF message = "" THEN "Request completed" ELSE message,
                           body, t, cnt, oks)

\* Mutant: every Stop measures from the moment it is called.
StopRestartsClock(l, c, level, message, body, t, cnt, oks) ==
    LogWithMandatoryFields("Stop", l, WithStartTime(c, t),
                           IF level = "" THEN "SUCCESS" ELSE level, FlagStop,
                           IF message = "" THEN "Request completed" ELSE message,
                           body, t, cnt, oks)

StopLevel(level) == IF level = "" THEN "SUCCESS" ELSE level
StopMessage(message) == IF message = "" THEN "Request completed" ELSE message

Stop(l, c, level, message, body, t, cnt, oks) ==
    LogStop("Stop", l, c, StopLevel(level), StopMessage(message), body, t, cnt, oks)

---------------------------------------------------------------------------
(* The state machine *)

Lines(s) == Len(s.stdout) + Len(s.stderr) + Len(s.file)

\* The bytes one Write call on a sink carries: those of logging call n, and
\* which unit of its line ("line" is the whole line, color codes and newline
\* included).
Chunk(n, unit) == [n |-> n, unit |-> unit]

WriteCall(sink, chunk) == [sink |-> sink, chunk |-> chunk]

\* The Write calls of the console branch: one fmt.Fprintf or fmt.Println with
\* color code, text, reset and newline.
ConsoleCalls(e, n) ==
    IF e.stream = "none" THEN <<>>
    ELSE <<WriteCall(e.stream, Chunk(n, "line"))>>

\* Mutant: the text and the newline are written by two calls.
FileCallsSplit(e, n) ==
    IF e.file = "written"
    THEN <<WriteCall("file", Chunk(n, "text")),
           WriteCall("file", Chunk(n, "newline"))>>
    ELSE <<>>

\* The Write calls of the file branch: one fmt.Fprintln with text and
\* newline; on a closed handle it writes nothing.
FileCalls(e, n) ==
    IF e.file = "written" THEN <<WriteCall("file", Chunk(n, "line"))>>
    ELSE <<>>

\* The Write calls a logging call makes before it returns, in order.
WriteCalls(e, n) == ConsoleCalls(e, n) \o FileCalls(e, n)

\* One Write call: *os.File serialises the Write calls on it, so the bytes
\* of one call arrive together.
ApplyWrite(s, w) == [s EXCEPT ![w.sink] = Append(@, w.chunk)]

RECURSIVE ApplyWrites(_, _)
ApplyWrites(s, ws) ==
    IF ws = <<>> THEN s ELSE ApplyWrites(ApplyWrite(s, Head(ws)), Tail(ws))

\* Mutant: the file line is left in a buffer.
DeliverConsoleOnly(s, e, n) == ApplyWrites(s, ConsoleCalls(e, n))

\* The sinks after one logging call: every Write call has been made when the
\* call returns.
Deliver(s, e, n) == ApplyWrites(s, WriteCalls(e, n))

\* The outcomes of the id generations of one call; a call that generates no
\* id has nothing to choose.
AllOk == [i \in 1..2 |-> TRUE]

NeedsUUID(c) == getUUIDFromContext(c, 0, FALSE).cnt = 0
                /\ getUUIDFromContext(c, 0, TRUE).cnt = 1

Outcomes(c, fail) ==
    IF NeedsUUID(c) /\ fail THEN [1..2 -> BOOLEAN] ELSE {AllOk}

SeedOutcomes(config, fail) ==
    IF config.TransactionID = "" /\ fail THEN BOOLEAN ELSE {TRUE}

CanLog == ~lg.nil /\ call.n < MaxLines

NoConfig == StartConfig("", "", "", "", "", "", "", "")

\* The inputs of a logging call: the carrier c the line is rendered from, the
\* time t of rendering, and for a Start variant its config and input carrier.
\* req is the request or adapter a Start variant was given.
Call(op, c, t, config, ctxIn) ==
    [op |-> op, ctx |-> c, t |-> t, config |-> config, ctxIn |-> ctxIn,
     cnt |-> uuidCount, lg |-> lg, n |-> call.n + 1, req |-> NilRequest]

NoCall ==
    [op |-> "none", ctx |-> NilCtx, t |-> 0, config |-> NoConfig,
     ctxIn |-> NilCtx, cnt |-> 0, lg |-> NoLogger, n |-> 0,
     req |-> NilRequest]

\* The state after a logging call that rendered r.emit at time t from the
\* carrier c, which the application holds from then on.
RenderedFrom(r, c, t, config, req) ==
    /\ r.cnt <= MaxUUID
    /\ emitted' = r.emit
    /\ call' = [Call(r.emit.op, c, t, config, req.ctx) EXCEPT !.req = req]
    /\ sinks' = Deliver(sinks, r.emit, call.n + 1)
    /\ uuidCount' = r.cnt
    /\ now' = t
    /\ UNCHANGED <<lg, lgErr, built>>

Rendered(r, c, t, config, ctxIn) ==
    RenderedFrom(r, c, t, config, [NilRequest EXCEPT !.ctx = ctxIn])

\* A Start variant on the request or adapter req.
LoggedFrom(r, c, t, config, req) ==
    /\ RenderedFrom(r, c, t, config, req)
    /\ ctx' = c
    /\ UNCHANGED aux

Logged(r, c, t, config, ctxIn) ==
    /\ Rendered(r, c, t, config, ctxIn)
    /\ ctx' = c
    /\ UNCHANGED aux

\* The application may derive carriers up to MaxChain layers deep.
CanDerive == Len(ctx.chain) < MaxChain

Derived(c, cnt) ==
    /\ cnt <= MaxUUID
    /\ ctx' = c
    /\ uuidCount' = cnt
    /\ UNCHANGED <<lg, lgErr, built, now, emitted, call, sinks, aux>>

CallStartLogger(configs, ips) ==
    /\ ~built.called
    /\ \E config \in configs, openOk \in BOOLEAN, ip \in ips :
          LET r == StartLogger(config, openOk, "host", ip)
          IN  /\ lg' = r.logger
              /\ lgErr' = r.err
              /\ built' = [called |-> TRUE, config |-> config,
                            openOk |-> openOk]
    /\ UNCHANGED <<ctx, now, uuidCount, emitted, call, sinks, aux>>

CallClose ==
    /\ ~lg.nil
    /\ lg' = Close(lg)
    /\ UNCHANGED <<lgErr, built, ctx, now, uuidCount, emitted, call, sinks, aux>>

Tick ==
    /\ now < MaxTime
    /\ now' = now + 1
    /\ UNCHANGED <<lg, lgErr, built, ctx, uuidCount, emitted, call, sinks, aux>>

CallWithUUID(vals) ==
    /\ CanDerive
    /\ \E v \in vals : Derived(WithUUID(ctx, v), uuidCount)

CallWithNewUUID(fail) ==
    /\ CanDerive
    /\ \E ok \in (IF fail THEN BOOLEAN ELSE {TRUE}) :
          LET r == WithNewUUID(ctx, uuidCount, ok) IN Derived(r.ctx, r.cnt)

CallWithServiceName(vals) ==
    /\ CanDerive
    /\ \E v \in vals : Derived(WithServiceName(ctx, v), uuidCount)

CallWithEndpoint(vals) ==
    /\ CanDerive
    /\ \E v \in vals : Derived(WithEndpoint(ctx, v), uuidCount)

CallWithMethod(vals) ==
    /\ CanDerive
    /\ \E v \in vals : Derived(WithMethod(ctx, v), uuidCount)

CallWithTraceID(vals) ==
    /\ CanDerive
    /\ \E v \in vals : Derived(WithTraceID(ctx, v), uuidCount)

CallWithTransactionID(vals) ==
    /\ CanDerive
    /\ \E v \in vals : Derived(WithTransactionID(ctx, v), uuidCount)

CallWithStartTime(times) ==
    /\ CanDerive
    /\ \E t \in times : Derived(WithStartTime(ctx, t), uuidCount)

\* The time that passes inside a Start variant between reading the start-time
\* and rendering the START line.
Delays(max) == {d \in 0..max : now + d <= MaxTime}

CallStart(configs, maxDelay, fail) ==
    /\ CanLog
    /\ Len(ctx.chain) <= MaxChain
    /\ \E config \in configs, d \in Delays(maxDelay) :
       \E ok \in SeedOutcomes(config, fail) :
          LET r == Start(lg, ctx, config, now, now + d, uuidCount, ok, AllOk)
          IN  Logged(r, r.ctx, now + d, config, ctx)

CallStartFromRequest(configs, requests, maxDelay, fail) ==
    /\ CanLog
    /\ Len(ctx.chain) <= MaxChain
    /\ \E config \in configs, r \in requests, d \in Delays(maxDelay) :
       \E ok \in SeedOutcomes(config, fail) :
          LET res == StartFromRequest(lg, r, config, now, now + d, uuidCount,
                                      ok, AllOk)
          IN  LoggedFrom(res, res.ctx, now + d, config, r)

\* A nil reqInfo makes reqInfo.Method() dereference a nil interface: the call
\* panics before anything is rendered.
CallStartFromHTTPRequestInfo(configs, infos, maxDelay, fail) ==
    /\ CanLog
    /\ Len(ctx.chain) <= MaxChain
    /\ \E config \in configs, reqInfo \in infos, d \in Delays(maxDelay) :
       \E ok \in SeedOutcomes(config, fail) :
          IF reqInfo.nil
          THEN /\ emitted' = [NoEmission EXCEPT
                                 !.op = "StartFromHTTPRequestInfo",
                                 !.layout = "panic"]
               /\ call' = [Call("StartFromHTTPRequestInfo", ctx, now, config,
                                 NilCtx) EXCEPT !.n = call.n]
               /\ UNCHANGED <<lg, lgErr, built, ctx, now, uuidCount, sinks, aux>>
          ELSE LET res == StartFromHTTPRequestInfo(lg, reqInfo, config, now,
                                                   now + d, uuidCount, ok, AllOk)
               IN  LoggedFrom(res, res.ctx, now + d, config,
                              Request(reqInfo.Method, reqInfo.Path,
                                      reqInfo.Body, reqInfo.Context))

\* The level, message and body a call was given, kept with the call.
Given(level, message, body) ==
    [NoConfig EXCEPT !.Level = level, !.Message = message, !.Body = body]

\* l.StartFromRequest(r, config) on a request that arrives with the context
\* the application set up upstream; the application keeps that context.
ServeFromRequest(configs, requests) ==
    /\ CanLog
    /\ \E config \in configs, r \in requests :
          LET res == StartFromRequest(lg, r, config, now, now, uuidCount, TRUE,
                                      AllOk)
          IN  RenderedFrom(res, res.ctx, now, config, r)
    /\ UNCHANGED <<ctx, aux>>

\* l.StartFromHTTPRequestInfo(&StandardHTTPRequest{req: r}, config) on such a
\* request.
ServeFromAdapter(configs, requests) ==
    /\ CanLog
    /\ \E config \in configs, r \in requests :
          LET res == StartFromHTTPRequestInfo(lg, StandardHTTPRequest(r), config,
                                              now, now, uuidCount, TRUE, AllOk)
          IN  RenderedFrom(res, res.ctx, now, config, r)
    /\ UNCHANGED <<ctx, aux>>

CallStop(levels, messages, bodies, fail) ==
    /\ CanLog
    /\ \E level \in levels, message \in messages, body \in bodies,
          oks \in Outcomes(ctx, fail) :
          Logged(Stop(lg, ctx, level, message, body, now, uuidCount, oks),
                 ctx, now, Given(level, message, body), ctx)

CallLogStart(levels, messages, bodies, fail) ==
    /\ CanLog
    /\ \E level \in levels, message \in messages, body \in bodies,
          oks \in Outcomes(ctx, fail) :
          Logged(LogStart("LogStart", lg, ctx, level, message, body, now,
                          uuidCount, oks), ctx, now, NoConfig, ctx)

CallLogStop(levels, messages, bodies, fail) ==
    /\ CanLog
    /\ \E level \in levels, message \in messages, body \in bodies,
          oks \in Outcomes(ctx, fail) :
          Logged(LogStop("LogStop", lg, ctx, level, message, body, now,
                         uuidCount, oks), ctx, now, NoConfig, ctx)

CallLogWithBody(levels, messages, bodies, fail) ==
    /\ CanLog
    /\ \E level \in levels, message \in messages, body \in bodies,
          oks \in Outcomes(ctx, fail) :
          Logged(LogWithBody("LogWithBody", lg, ctx, level, message, body, now,
                             uuidCount, oks), ctx, now, NoConfig, ctx)

\* The four levels of the simple-layout methods.
SimpleLevels == {"ERROR", "WARNING", "SUCCESS", "INFO"}

MethodName(level) ==
    CASE level = "ERROR" -> "Error"
      [] level = "WARNING" -> "Warning"
      [] level = "SUCCESS" -> "Success"
      [] level = "INFO" -> "Info"

\* Error, Warning, Success, Info: a new id for every call.
Plain(op, l, level, message, outer, t, cnt, ok) ==
    LET g == generateUUID(cnt, ok)
    IN  [emit |-> writeToBoth(op, l, level, g.id, message,
                              <<MethodName(level)>> \o outer, t),
         cnt |-> g.cnt]

\* ErrorCtx, WarningCtx, SuccessCtx, InfoCtx: the id of the carrier.
WithCtx(op, l, c, level, message, outer, t, cnt, ok) ==
    LET u == getUUIDFromContext(c, cnt, ok)
    IN  [emit |-> writeToBoth(op, l, level, u.id, message,
                              <<MethodName(level) \o "Ctx">> \o outer, t),
         cnt |-> u.cnt]

CallPlain(messages, fail) ==
    /\ CanLog
    /\ \E level \in SimpleLevels, message \in messages,
          ok \in (IF fail THEN BOOLEAN ELSE {TRUE}) :
          Logged(Plain(MethodName(level), lg, level, message, <<"user">>, now,
                       uuidCount, ok), ctx, now, NoConfig, ctx)

\* Errorf, Warningf, Successf, Infof call the plain method.
CallPlainf(messages, fail) ==
    /\ CanLog
    /\ \E level \in SimpleLevels, message \in messages,
          ok \in (IF fail THEN BOOLEAN ELSE {TRUE}) :
          Logged(Plain(MethodName(level) \o "f", lg, level, message,
                       <<MethodName(level) \o "f", "user">>, now,
                       uuidCount, ok), ctx, now, NoConfig, ctx)

CallCtx(messages, fail) ==
    /\ CanLog
    /\ \E level \in SimpleLevels, message \in messages,
          ok \in {o[1] : o \in Outcomes(ctx, fail)} :
          Logged(WithCtx(MethodName(level) \o "Ctx", lg, ctx, level, message,
                         <<"user">>, now, uuidCount, ok), ctx, now, NoConfig, ctx)

\* ErrorfCtx, WarningfCtx, SuccessfCtx, InfofCtx call the Ctx method.
CallfCtx(messages, fail) ==
    /\ CanLog
    /\ \E level \in SimpleLevels, message \in messages,
          ok \in {o[1] : o \in Outcomes(ctx, fail)} :
          Logged(WithCtx(MethodName(level) \o "fCtx", lg, ctx, level, message,
                         <<MethodName(level) \o "fCtx", "user">>, now,
                         uuidCount, ok), ctx, now, NoConfig, ctx)

---------------------------------------------------------------------------
(* StandardHTTPMiddleware.  Serving one request takes several steps: the     *)
(* middleware's code up to next.ServeHTTP, the calls the wrapped handler     *)
(* makes on the response writer it was given, and the middleware's code      *)
(* after the handler has returned.                                          *)

MiddlewareConfig(serviceName, skipPaths) ==
    [ServiceName |-> serviceName, SkipPaths |-> skipPaths]

\* for _, skipPath := range config.SkipPaths { if r.URL.Path == skipPath
SkippedNever(config, path) == FALSE

Skipped(config, path) == \E skipPath \in config.SkipPaths : path = skipPath

\* The status codes a handler may pass to WriteHeader.
StatusCodes == {200, 299, 300, 399, 400, 404}

StatusOK == 200

\* The http.ResponseWriter that is wrapped: the status line goes out once,
\* with the code of the first WriteHeader or with 200 at the first Write if
\* none came before; sent is the status that went out, 0 while none has.
SendHeader(sent, code) == IF sent = 0 THEN code ELSE sent

\* A *responseWriter: the captured status and body, and what it has passed on
\* to the http.ResponseWriter it wraps.
\* headers and chunks are the calls passed on, in order.
ResponseWriter(statusCode) ==
    [statusCode |-> statusCode, bodyNil |-> TRUE, body |-> "",
     headers |-> <<>>, chunks |-> <<>>, sent |-> 0]

WriteHeader(rw, code) ==
    [rw EXCEPT !.statusCode = code, !.headers = Append(@, code),
               !.sent = SendHeader(@, code)]

Write(rw, b) ==
    [rw EXCEPT !.bodyNil = FALSE, !.body = b, !.chunks = Append(@, b),
               !.sent = SendHeader(@, StatusOK)]

\* Mutant: every status of 400 and above is a warning.
MiddlewareLevelNoError(statusCode) ==
    IF statusCode >= 300 THEN "WARNING" ELSE "SUCCESS"

\* The level of the STOP line.
MiddlewareLevel(statusCode) ==
    IF statusCode >= 400 THEN "ERROR"
    ELSE IF statusCode >= 300 THEN "WARNING"
         ELSE "SUCCESS"

\* The body of the STOP line.
MiddlewareBody(rw) == IF ~rw.bodyNil THEN rw.body ELSE ""

\* Mutant: the handler is given the request as it came in.
HandlerRequestAsReceived(r, c) == r

\* r.WithContext(ctx): the request the wrapped handler is given.
HandlerRequest(r, c) == [r EXCEPT !.ctx = c]

NoRequestServed ==
    [pc |-> "idle", skipped |-> FALSE, request |-> NilRequest,
     config |-> MiddlewareConfig("", {}), carrier |-> NilCtx,
     given |-> NilRequest, writer |-> "none", rw |-> ResponseWriter(0),
     steps |-> <<>>, n0 |-> 0, calls |-> 0]

\* The middleware is not inside a request.
MwIdle == mw.pc \in {"idle", "done"}

\* The middleware function up to and including next.ServeHTTP's entry.
MwServe(configs, requests) ==
    /\ MwIdle
    /\ ~lg.nil
    /\ call.n + 2 <= MaxLines
    /\ \E config \in configs, r \in requests :
          IF Skipped(config, r.Path)
          THEN /\ mw' = [NoRequestServed EXCEPT
                            !.pc = "handler", !.skipped = TRUE, !.request = r,
                            !.config = config, !.given = r,
                            !.writer = "original",
                            !.steps = <<"handler">>, !.n0 = call.n,
                            !.calls = 1]
               /\ UNCHANGED <<lg, lgErr, built, ctx, now, uuidCount, emitted,
                              call, sinks, store, threads>>
          ELSE LET startConfig == StartConfig(config.ServiceName, "", "", "",
                                              "", "", "", "")
                   res == StartFromHTTPRequestInfo(lg, StandardHTTPRequest(r),
                              startConfig, now, now, uuidCount, TRUE, AllOk)
               IN  /\ Rendered(res, res.ctx, now, startConfig, r.ctx)
                   /\ mw' = [NoRequestServed EXCEPT
                                !.pc = "handler", !.request = r,
                                !.config = config, !.carrier = res.ctx,
                                !.given = HandlerRequest(r, res.ctx),
                                !.writer = "wrapped",
                                !.rw = ResponseWriter(StatusOK),
                                !.steps = <<"START", "handler">>,
                                !.n0 = call.n, !.calls = 1]
                   /\ UNCHANGED <<ctx, store, threads>>

\* The handler may call the writer it was given up to MaxWrites times.
HandlerRunning ==
    /\ mw.pc = "handler"
    /\ Len(mw.rw.headers) + Len(mw.rw.chunks) < MaxWrites

\* The wrapped handler calls w.WriteHeader(code).
HandlerWriteHeader(codes) ==
    /\ HandlerRunning
    /\ \E code \in codes : mw' = [mw EXCEPT !.rw = WriteHeader(@, code)]
    /\ UNCHANGED <<lg, lgErr, built, ctx, now, uuidCount, emitted, call, sinks,
                   store, threads>>

\* The wrapped handler calls w.Write(b).
HandlerWrite(chunks) ==
    /\ HandlerRunning
    /\ \E b \in chunks : mw' = [mw EXCEPT !.rw = Write(@, b)]
    /\ UNCHANGED <<lg, lgErr, built, ctx, now, uuidCount, emitted, call, sinks,
                   store, threads>>

\* next.ServeHTTP returns: the middleware function runs to its end.
HandlerReturn ==
    /\ mw.pc = "handler"
    /\ IF mw.skipped
       THEN /\ mw' = [mw EXCEPT !.pc = "done", !.steps = Append(@, "return")]
            /\ UNCHANGED <<lg, lgErr, built, ctx, now, uuidCount, emitted,
                           call, sinks, store, threads>>
       ELSE LET res == Stop(lg, mw.carrier, MiddlewareLevel(mw.rw.statusCode),
                            "Request completed", MiddlewareBody(mw.rw), now,
                            uuidCount, AllOk)
            IN  /\ Rendered(res, mw.carrier, now, NoConfig, mw.carrier)
                /\ mw' = [mw EXCEPT !.pc = "done",
                                    !.steps = @ \o <<"return", "STOP">>]
                /\ UNCHANGED <<ctx, store, threads>>

---------------------------------------------------------------------------
(* Carriers the application keeps.  Each derivation hands back a carrier;    *)
(* the application keeps the ones it was handed before, and may derive from  *)
(* any of them again.                                                        *)

\* An entry: a carrier, and the entry it was derived from (0 for none).
Kept(parent, c) == [parent |-> parent, ctx |-> c]

NoStore == <<>>

\* Mutant: the derivation also writes through to the carrier it was given.
DeriveInPlace(st, i, c) ==
    IF i = 0 THEN Append(st, Kept(i, c))
    ELSE [Append(st, Kept(i, c)) EXCEPT ![i] = Kept(st[i].parent, c)]

\* return context.WithValue(ctx, key, v): the result is a new value, the
\* argument is not assigned through.
Derive(st, i, c) == Append(st, Kept(i, c))

CanKeep == Len(store) < MaxCarriers

KeepDerived(i, c, cnt) ==
    /\ cnt <= MaxUUID
    /\ store' = Derive(store, i, c)
    /\ uuidCount' = cnt
    /\ UNCHANGED <<lg, lgErr, built, ctx, now, emitted, call, sinks, mw, threads>>

KeepWithUUID(vals) ==
    /\ CanKeep
    /\ \E i \in DOMAIN store, v \in vals :
          KeepDerived(i, WithUUID(store[i].ctx, v), uuidCount)

KeepWithNewUUID ==
    /\ CanKeep
    /\ \E i \in DOMAIN store :
          LET r == WithNewUUID(store[i].ctx, uuidCount, TRUE)
          IN  KeepDerived(i, r.ctx, r.cnt)

KeepWithServiceName(vals) ==
    /\ CanKeep
    /\ \E i \in DOMAIN store, v \in vals :
          KeepDerived(i, WithServiceName(store[i].ctx, v), uuidCount)

KeepWithEndpoint(vals) ==
    /\ CanKeep
    /\ \E i \in DOMAIN store, v \in vals :
          KeepDerived(i, WithEndpoint(store[i].ctx, v), uuidCount)

KeepWithMethod(vals) ==
    /\ CanKeep
    /\ \E i \in DOMAIN store, v \in vals :
          KeepDerived(i, WithMethod(store[i].ctx, v), uuidCount)

KeepWithTraceID(vals) ==
    /\ CanKeep
    /\ \E i \in DOMAIN store, v \in vals :
          KeepDerived(i, WithTraceID(store[i].ctx, v), uuidCount)

KeepWithTransactionID(vals) ==
    /\ CanKeep
    /\ \E i \in DOMAIN store, v \in vals :
          KeepDerived(i, WithTransactionID(store[i].ctx, v), uuidCount)

KeepWithStartTime(times) ==
    /\ CanKeep
    /\ \E i \in DOMAIN store, t \in times :
          KeepDerived(i, WithStartTime(store[i].ctx, t), uuidCount)

KeepWithHTTPRequest(methods, paths) ==
    /\ CanKeep
    /\ \E i \in DOMAIN store, m \in methods, p \in paths :
          KeepDerived(i, WithHTTPRequest(store[i].ctx,
                                         Request(m, p, "", Background)),
                      uuidCount)

\* A Start variant whose result derives from entry i (0: from a new
\* context.Background()).
KeepStarted(i, r, config, ctxIn) ==
    /\ Rendered(r, r.ctx, now, config, ctxIn)
    /\ store' = Derive(store, i, r.ctx)
    /\ UNCHANGED <<ctx, mw, threads>>

KeepStart(configs) ==
    /\ CanKeep /\ CanLog
    /\ \E i \in DOMAIN store, config \in configs :
          KeepStarted(i, Start(lg, store[i].ctx, config, now, now, uuidCount,
                               TRUE, AllOk), config, store[i].ctx)

\* StartFromRequest starts from context.Background(), not from r.Context().
KeepStartFromRequest(configs) ==
    /\ CanKeep /\ CanLog
    /\ \E i \in DOMAIN store, config \in configs :
          LET r == Request("GET", "/p", "", OrBackground(store[i].ctx))
          IN  KeepStarted(0, StartFromRequest(lg, r, config, now, now,
                                              uuidCount, TRUE, AllOk),
                          config, r.ctx)

KeepStartFromHTTPRequestInfo(configs) ==
    /\ CanKeep /\ CanLog
    /\ \E i \in DOMAIN store, config \in configs :
          LET reqInfo == RequestInfo("GET", "/p", "", OrBackground(store[i].ctx))
          IN  KeepStarted(i, StartFromHTTPRequestInfo(lg, reqInfo, config, now,
                                 now, uuidCount, TRUE, AllOk),
                          config, reqInfo.Context)

\* ErrorCtx .. InfoCtx on a carrier the application kept.
KeepCtx(levels, messages) ==
    /\ CanLog
    /\ \E i \in DOMAIN store, level \in levels, message \in messages :
          LET c == store[i].ctx
              r == WithCtx(MethodName(level) \o "Ctx", lg, c, level, message,
                           <<"user">>, now, uuidCount, TRUE)
          IN  Rendered(r, c, now, NoConfig, c)
    /\ UNCHANGED <<ctx, store, mw, threads>>

\* ErrorfCtx .. InfofCtx on a carrier the application kept.
KeepfCtx(levels, messages) ==
    /\ CanLog
    /\ \E i \in DOMAIN store, level \in levels, message \in messages :
          LET c == store[i].ctx
              r == WithCtx(MethodName(level) \o "fCtx", lg, c, level, message,
                           <<MethodName(level) \o "fCtx", "user">>, now,
                           uuidCount, TRUE)
          IN  Rendered(r, c, now, NoConfig, c)
    /\ UNCHANGED <<ctx, store, mw, threads>>

\* Stop on a carrier the application kept.
KeepStop(levels, messages, bodies) ==
    /\ CanLog
    /\ \E i \in DOMAIN store, level \in levels, message \in messages,
          body \in bodies :
          LET c == store[i].ctx
          IN  Rendered(Stop(lg, c, level, message, body, now, uuidCount, AllOk),
                       c, now, Given(level, message, body), c)
    /\ UNCHANGED <<ctx, store, mw, threads>>

---------------------------------------------------------------------------
(* Goroutines logging through one logger.  A logging call renders its line  *)
(* and then makes its Write calls one after the other; between two Write    *)
(* calls of one goroutine the others may run.                               *)

Threads == 1..MaxThreads

IdleThread == [pc |-> "idle", todo |-> <<>>, n |-> 0]

NoThreads == [t \in Threads |-> IdleThread]

\* Goroutine t calls ErrorCtx .. InfoCtx on a carrier with a unique-id: the
\* line is rendered, the Write calls are still to be made.
ThreadCall(levels, messages) ==
    /\ CanLog
    /\ \E t \in Threads, level \in levels, message \in messages :
          LET c == WithUUID(Background, "u1")
              r == WithCtx(MethodName(level) \o "Ctx", lg, c, level, message,
                           <<"user">>, now, uuidCount, TRUE)
          IN  /\ threads[t].pc = "idle"
              /\ threads' = [threads EXCEPT ![t] =
                               [pc |-> "writing",
                                todo |-> WriteCalls(r.emit, call.n + 1),
                                n |-> call.n + 1]]
              /\ emitted' = r.emit
              /\ call' = Call(r.emit.op, c, now, NoConfig, c)
    /\ UNCHANGED <<lg, lgErr, built, ctx, now, uuidCount, sinks, store, mw>>

\* Goroutine t makes its next Write call.
ThreadWrite ==
    /\ \E t \in Threads :
          /\ threads[t].pc = "writing"
          /\ threads[t].todo # <<>>
          /\ sinks' = ApplyWrite(sinks, Head(threads[t].todo))
          /\ threads' = [threads EXCEPT ![t].todo = Tail(@)]
    /\ UNCHANGED <<lg, lgErr, built, ctx, now, uuidCount, emitted, call, store, mw>>

\* The logging call of goroutine t returns.
ThreadReturn ==
    /\ \E t \in Threads :
          /\ threads[t].pc = "writing"
          /\ threads[t].todo = <<>>
          /\ threads' = [threads EXCEPT ![t] = IdleThread]
    /\ UNCHANGED <<lg, lgErr, built, ctx, now, uuidCount, emitted, call, sinks,
                   store, mw>>

---------------------------------------------------------------------------
(* Specifications.  Each one runs the same operations over the inputs that  *)
(* its subject depends on and keeps the other inputs at their zero values.  *)

NoSinks == [stdout |-> <<>>, stderr |-> <<>>, file |-> <<>>]

ConsoleLogger == StartLogger(NilConfig, TRUE, "host", "10.0.0.1").logger

\* The state after StartLogger(nil): a console logger, nothing logged yet.
InitLogger ==
    /\ built = [called |-> TRUE, config |-> NilConfig, openOk |-> TRUE]
    /\ lg = ConsoleLogger
    /\ lgErr = ""
    /\ ctx = NilCtx
    /\ now = 0
    /\ uuidCount = 0
    /\ emitted = NoEmission
    /\ call = NoCall
    /\ sinks = NoSinks
    /\ store = NoStore
    /\ mw = NoRequestServed
    /\ threads = NoThreads

\* Spec: identifiers.  Carriers with and without unique-id, transaction-id
\* and trace-id; configs with and without TransactionID and TraceID; id
\* generation may fail.
IdConfigs ==
    {StartConfig("", "", "", "", tr, "", "", "") : tr \in {"", "r1"}} \cup
    {StartConfig("", "", "", "t1", tr, "", "", "") : tr \in {"", "t1", "r1"}}

Requests(methods, paths, bodies) ==
    {NilRequest} \cup
    {Request(m, p, b, OrBackground(ctx)) :
        m \in methods, p \in paths, b \in bodies}

Infos(methods, paths, bodies) ==
    {NilRequestInfo} \cup
    {RequestInfo(m, p, b, c) :
        m \in methods, p \in paths, b \in bodies, c \in {ctx}}

Init == InitLogger

Next ==
    \/ CallWithUUID({"u1", ""})
    \/ CallWithNewUUID(TRUE)
    \/ CallWithTraceID({"r1"})
    \/ CallWithTransactionID({"t2"})
    \/ CallStart(IdConfigs, 0, TRUE)
    \/ CallStartFromRequest(IdConfigs, Requests({"GET"}, {"/p"}, {""}), 0, TRUE)
    \/ CallStartFromHTTPRequestInfo(IdConfigs, Infos({"GET"}, {"/p"}, {""}),
                                    0, TRUE)
    \/ CallStop({""}, {""}, {""}, TRUE)
    \/ CallLogStart({"INFO"}, {"m"}, {""}, TRUE)
    \/ CallLogStop({"ERROR"}, {"m"}, {""}, TRUE)
    \/ CallLogWithBody({"WARNING"}, {"m"}, {"b"}, TRUE)

Spec == Init /\ [][Next]_vars

\* SpecTime: the clock.  Carriers with and without a start-time, time passing
\* between and inside the calls.
TimeConfigs == {StartConfig("", "", "", txn, "", "", "", "") : txn \in {"", "t1"}}

NextTime ==
    \/ Tick
    \/ CallWithStartTime(0..MaxTime)
    \/ CallWithUUID({"u1"})
    \/ CallStart(TimeConfigs, TicksPerMs, FALSE)
    \/ CallStartFromRequest(TimeConfigs, Requests({"GET"}, {"/p"}, {"", "rb"}),
                            TicksPerMs, FALSE)
    \/ CallStartFromHTTPRequestInfo(TimeConfigs, Infos({"GET"}, {"/p"}, {""}),
                                    TicksPerMs, FALSE)
    \/ CallStop({""}, {""}, {""}, FALSE)
    \/ CallLogStart({"INFO"}, {"m"}, {""}, FALSE)
    \/ CallLogStop({"ERROR"}, {"m"}, {""}, FALSE)
    \/ CallLogWithBody({"WARNING"}, {"m"}, {"b"}, FALSE)

SpecTime == InitLogger /\ [][NextTime]_vars

\* SpecFields: service name, method and endpoint, on the carrier, in the
\* config and in the request.
FieldConfigs ==
    {StartConfig(sn, ep, m, "t1", "", "", "", "") :
        sn \in {"", "svc2"}, ep \in {"", "/q"}, m \in {"", "POST"}}

NextFields ==
    \/ CallWithServiceName({"svc", "unknown", ""})
    \/ CallWithEndpoint({"/p", "unknown"})
    \/ CallWithMethod({"GET", "unknown"})
    \/ CallWithUUID({"u1"})
    \/ CallStart(FieldConfigs, 0, FALSE)
    \/ CallStartFromRequest(FieldConfigs,
                            Requests({"", "GET"}, {"", "/p"}, {""}), 0, FALSE)
    \/ CallStartFromHTTPRequestInfo(FieldConfigs,
                                    Infos({"GET"}, {"", "/p"}, {""}),
                                    0, FALSE)
    \/ CallStop({""}, {""}, {""}, FALSE)
    \/ CallLogStart({"INFO"}, {"m"}, {""}, FALSE)
    \/ CallLogStop({"ERROR"}, {"m"}, {""}, FALSE)
    \/ CallLogWithBody({"WARNING"}, {"m"}, {"b"}, FALSE)

SpecFields == InitLogger /\ [][NextFields]_vars

\* SpecSink: construction, Close and the writers.  Every LoggerConfig, every
\* logging method, every level.
LoggerConfigs ==
    {NilConfig} \cup
    {Config(f, t) : f \in {"", "app.log"},
                    t \in {"", LogTypeConsole, LogTypeFile, LogTypeAll, "syslog"}}

AnyLevels == {"", "ERROR", "WARNING", "SUCCESS", "INFO", "DEBUG"}

SinkConfigs ==
    {StartConfig("", "", "", "t1", "", "", "", lv) : lv \in {"", "ERROR"}}

InitSink ==
    /\ built = [called |-> FALSE, config |-> NilConfig, openOk |-> TRUE]
    /\ lg = NoLogger
    /\ lgErr = ""
    /\ ctx = NilCtx
    /\ now = 0
    /\ uuidCount = 0
    /\ emitted = NoEmission
    /\ call = NoCall
    /\ sinks = NoSinks
    /\ store = NoStore
    /\ mw = NoRequestServed
    /\ threads = NoThreads

NextSink ==
    \/ CallStartLogger(LoggerConfigs, {"10.0.0.1", "unknown"})
    \/ CallClose
    \/ CallPlain({"m"}, FALSE)
    \/ CallPlainf({"m"}, FALSE)
    \/ CallCtx({"m"}, FALSE)
    \/ CallfCtx({"m"}, FALSE)
    \/ CallStart(SinkConfigs, 0, FALSE)
    \/ CallStartFromRequest(SinkConfigs, Requests({"GET"}, {"/p"}, {""}), 0,
                            FALSE)
    \/ CallStartFromHTTPRequestInfo(SinkConfigs, Infos({"GET"}, {"/p"}, {""}),
                                    0, FALSE)
    \/ CallStop(AnyLevels, {""}, {""}, FALSE)
    \/ CallLogStart(AnyLevels, {"m"}, {""}, FALSE)
    \/ CallLogStop(AnyLevels, {"m"}, {""}, FALSE)
    \/ CallLogWithBody(AnyLevels, {"m"}, {""}, FALSE)

SpecSink == InitSink /\ [][NextSink]_vars

\* SpecMw: the middleware serving requests whose context may carry values
\* from upstream; handlers that set any status and write any chunks.
MwConfigs ==
    {MiddlewareConfig(sn, skip) :
        sn \in {"", "svc"}, skip \in {{}, {"/health"}, {"/health", "/p"}}}

\* The server hands the middleware a non-nil request with a non-nil context.
MwRequests ==
    {Request(m, p, "", OrBackground(ctx)) :
        m \in {"GET"}, p \in {"/health", "/health/", "/p"}}

NextMw ==
    \/ CallWithServiceName({"up"})
    \/ MwServe(MwConfigs, MwRequests)
    \/ HandlerWriteHeader(StatusCodes)
    \/ HandlerWrite({"a", "b"})
    \/ HandlerReturn

SpecMw == InitLogger /\ [][NextMw]_vars

\* SpecCarrier: derivations from any carrier the application was handed
\* before, starting from a nil carrier and context.Background().
CarrierConfigs == {StartConfig("svc2", "", "", "t1", "", "", "", "")}

InitCarrier ==
    /\ built = [called |-> TRUE, config |-> NilConfig, openOk |-> TRUE]
    /\ lg = ConsoleLogger
    /\ lgErr = ""
    /\ ctx = NilCtx
    /\ now = 0
    /\ uuidCount = 0
    /\ emitted = NoEmission
    /\ call = NoCall
    /\ sinks = NoSinks
    /\ store = <<Kept(0, NilCtx), Kept(0, Background)>>
    /\ mw = NoRequestServed
    /\ threads = NoThreads

NextCarrier ==
    \/ KeepWithUUID({"u1"})
    \/ KeepWithNewUUID
    \/ KeepWithServiceName({"svc", "svc2", ""})
    \/ KeepWithEndpoint({"/p"})
    \/ KeepWithMethod({"GET"})
    \/ KeepWithTraceID({"r1"})
    \/ KeepWithTransactionID({"t1"})
    \/ KeepWithStartTime({1})
    \/ KeepWithHTTPRequest({"POST"}, {"/q"})
    \/ KeepStart(CarrierConfigs)
    \/ KeepStartFromRequest(CarrierConfigs)
    \/ KeepStartFromHTTPRequestInfo(CarrierConfigs)

SpecCarrier == InitCarrier /\ [][NextCarrier]_vars

\* SpecIds: the Ctx methods on carriers with and without a unique-id, and on
\* carriers derived from them.
NextIds ==
    \/ KeepWithUUID({"u1", ""})
    \/ KeepWithNewUUID
    \/ KeepWithServiceName({"svc"})
    \/ KeepCtx({"ERROR", "INFO"}, {"m"})
    \/ KeepfCtx({"WARNING", "SUCCESS"}, {"m"})

SpecIds == InitCarrier /\ [][NextIds]_vars

\* SpecDefaults: Start variants and Stop with and without level and message.
DefaultConfigs ==
    {StartConfig("", "", "", "t1", "", "", msg, lv) :
        msg \in {"", "hello"}, lv \in {"", "ERROR"}}

NextDefaults ==
    \/ CallWithServiceName({"svc"})
    \/ CallStart(DefaultConfigs, 0, FALSE)
    \/ CallStartFromRequest(DefaultConfigs, Requests({"GET"}, {"/p"}, {""}), 0,
                            FALSE)
    \/ CallStartFromHTTPRequestInfo(DefaultConfigs,
                                    Infos({"GET"}, {"/p"}, {""}), 0, FALSE)
    \/ CallStop({"", "WARNING"}, {"", "bye"}, {"", "b"}, FALSE)
    \/ Tick

SpecDefaults == InitLogger /\ [][NextDefaults]_vars

\* SpecStop: Stop, any number of times, on carriers with and without a
\* start-time, while time passes.
NextStop ==
    \/ Tick
    \/ KeepWithUUID({"u1"})
    \/ KeepWithStartTime({0})
    \/ KeepStart(CarrierConfigs)
    \/ KeepStop({""}, {""}, {""})

SpecStop == InitCarrier /\ [][NextStop]_vars

\* SpecPair: a Start variant on any carrier with any config, then Stop on
\* the carrier it returned.
PairConfigs ==
    {StartConfig(sn, "", "", txn, tr, "", "", "") :
        sn \in {"", "svc2"}, txn \in {"", "t1"}, tr \in {"", "r1"}}

NextPair ==
    \/ CallWithTransactionID({"t2"})
    \/ CallWithTraceID({"r1"})
    \/ CallWithServiceName({"svc", "unknown"})
    \/ CallWithEndpoint({"/e"})
    \/ CallStart(PairConfigs, 0, TRUE)
    \/ CallStartFromRequest(PairConfigs, Requests({"GET"}, {"/p"}, {""}), 0,
                            TRUE)
    \/ CallStartFromHTTPRequestInfo(PairConfigs, Infos({"GET"}, {"/p"}, {""}),
                                    0, TRUE)
    \/ CallStop({""}, {""}, {""}, FALSE)

SpecPair == InitLogger /\ [][NextPair]_vars

\* SpecAdapter: the two request variants on the same requests, with and
\* without a body, with and without values on the request's context.
AdapterConfigs ==
    {StartConfig(sn, "", "", txn, "", "", "", "") :
        sn \in {"", "svc2"}, txn \in {"", "t1"}}

NextAdapter ==
    \/ CallWithServiceName({"up"})
    \/ CallWithEndpoint({"/e"})
    \/ ServeFromRequest(AdapterConfigs,
                        Requests({"", "GET"}, {"/p"}, {"", "rb"}))
    \/ ServeFromAdapter(AdapterConfigs,
                        Requests({"", "GET"}, {"/p"}, {"", "rb"}))

SpecAdapter == InitLogger /\ [][NextAdapter]_vars

\* SpecThreads: goroutines logging through one logger in mode all.
AllLogger ==
    StartLogger(Config("app.log", LogTypeAll), TRUE, "host", "10.0.0.1").logger

InitThreads ==
    /\ built = [called |-> TRUE, config |-> Config("app.log", LogTypeAll),
                openOk |-> TRUE]
    /\ lg = AllLogger
    /\ lgErr = ""
    /\ ctx = NilCtx
    /\ now = 0
    /\ uuidCount = 0
    /\ emitted = NoEmission
    /\ call = NoCall
    /\ sinks = NoSinks
    /\ store = NoStore
    /\ mw = NoRequestServed
    /\ threads = NoThreads

NextThreads ==
    \/ ThreadCall({"ERROR", "INFO"}, {"m"})
    \/ ThreadWrite
    \/ ThreadReturn

SpecThreads == InitThreads /\ [][NextThreads]_vars

---------------------------------------------------------------------------
(* Properties *)

Parts(line, seg) == {i \in 1..Len(line) : line[i].seg = seg}
HasPart(line, seg) == Parts(line, seg) # {}

IsMandatory == emitted.layout = "mandatory"
StartOps == {"Start", "StartFromRequest", "StartFromHTTPRequestInfo"}
CarrierOps == {"LogStart", "LogStop", "LogWithBody", "Stop"}

\* What a carrier holds for a key: the value of the nearest layer, "" if none.
Held(c, key) == IF c.nil THEN "" ELSE Value(c, key).val
IsSet(c, key) == ~c.nil /\ Value(c, key).ok

\* The ids generated after cnt ids had been produced.
FreshIds(cnt) == {GenNames[i] : i \in (cnt + 1)..Len(GenNames)}

\* The transaction id a carrier stands for: the one set on it, else its
\* unique id (what the mandatory layout prints as TxnID).
TransactionOf(c) ==
    IF Held(c, TransactionIDKey) # "" THEN Held(c, TransactionIDKey)
    ELSE Held(c, UUIDKey)

\* C1: in the carrier returned by a Start variant the unique-id and the
\* transaction-id are the same value: config.TransactionID when non-empty,
\* otherwise the id generated by the call (the provider's "unknown" when it
\* fails), and the TxnID part of the START line shows that value.
C1_StartSeedsOneId ==
    (IsMandatory /\ emitted.op \in StartOps) =>
        LET uid == Held(call.ctx, UUIDKey)
        IN  /\ TransactionOf(call.ctx) = uid
            /\ call.config.TransactionID # "" => uid = call.config.TransactionID
            /\ call.config.TransactionID = ""
                  => uid \in FreshIds(call.cnt) \cup {"unknown"}
            /\ HasPart(emitted.formatted, "TxnID")
            /\ \A i \in Parts(emitted.formatted, "TxnID") :
                  emitted.formatted[i].a = uid

\* m is d ticks truncated toward zero to whole milliseconds.
TruncatedMs(d, m) ==
    \/ d >= 0 /\ m >= 0 /\ m * TicksPerMs <= d /\ d < (m + 1) * TicksPerMs
    \/ d <= 0 /\ m <= 0 /\ (-m) * TicksPerMs <= -d /\ -d < (1 - m) * TicksPerMs

\* Ticks between the start-time recorded on the carrier and the rendering.
Elapsed == call.t - Value(call.ctx, StartTimeKey).t

\* C2: a mandatory-layout line has a Duration part if and only if a
\* start-time is recorded on the carrier and the elapsed time truncated to
\* whole milliseconds is not 0; the part then shows exactly that number.
C2_DurationIffElapsed ==
    IsMandatory =>
        /\ HasPart(emitted.formatted, "Duration")
              <=> (IsSet(call.ctx, StartTimeKey) /\ ~TruncatedMs(Elapsed, 0))
        /\ Cardinality(Parts(emitted.formatted, "Duration")) <= 1
        /\ \A i \in Parts(emitted.formatted, "Duration") :
              TruncatedMs(Elapsed, emitted.formatted[i].n)

\* Stop on the carrier of a Start, a millisecond or more later, shows the
\* elapsed milliseconds.
C2_Witness ==
    /\ IsMandatory /\ emitted.op = "Stop"
    /\ IsSet(call.ctx, StartTimeKey) /\ IsSet(call.ctx, UUIDKey)
    /\ Elapsed = TicksPerMs + 1
    /\ \E i \in Parts(emitted.formatted, "Duration") : emitted.formatted[i].n = 1

\* C3: the START line emitted by a Start variant never has a Duration part,
\* however much time passes between recording the start-time and rendering.
C3_NoDurationOnStart ==
    (IsMandatory /\ emitted.op \in StartOps) =>
        ~HasPart(emitted.formatted, "Duration")

\* C4: a mandatory-layout line whose entry has equal trace id and
\* transaction id has a TxnID part and no TraceID part; when they differ and
\* both are non-empty it has both, TxnID before TraceID.
C4_TraceOnlyWhenDifferent ==
    IsMandatory =>
        LET e == emitted.entry
            line == emitted.formatted
        IN  /\ e.TraceID = e.TransactionID
                  => HasPart(line, "TxnID") /\ ~HasPart(line, "TraceID")
            /\ (e.TraceID # e.TransactionID /\ e.TraceID # ""
                  /\ e.TransactionID # "")
                  => /\ HasPart(line, "TxnID") /\ HasPart(line, "TraceID")
                     /\ \A i \in Parts(line, "TxnID"), j \in Parts(line, "TraceID") :
                           /\ i < j
                           /\ line[i].a = e.TransactionID
                           /\ line[j].a = e.TraceID

\* A carrier on which the trace id was set to the transaction id: the line
\* shows TxnID alone.
C4_Witness ==
    /\ IsMandatory
    /\ Held(call.ctx, TraceIDKey) # ""
    /\ Held(call.ctx, TraceIDKey) = Held(call.ctx, TransactionIDKey)
    /\ HasPart(emitted.formatted, "TxnID")
    /\ ~HasPart(emitted.formatted, "TraceID")

\* C5: for a carrier on which no trace id was set (nil included), the lines
\* of LogStart, LogStop, LogWithBody and Stop have no TraceID part.
C5_NoTraceWhenUnset ==
    (IsMandatory /\ emitted.op \in CarrierOps /\ ~IsSet(call.ctx, TraceIDKey))
        => ~HasPart(emitted.formatted, "TraceID")

\* A method or endpoint is known on a carrier when the carrier holds a value
\* for it other than "" and the sentinel "unknown".
Known(c, key) == Held(c, key) \notin {"", "unknown"}

\* C6: method and endpoint render as the single part "[METHOD] endpoint"
\* exactly when both are known on the carrier; with only the method known the
\* line has "Method: x" and no Route part; with only the endpoint known it has
\* "Route: x" and no Method part; with neither it has none of the three.
C6_MethodRoute ==
    IsMandatory =>
        LET line == emitted.formatted
            m == Known(call.ctx, MethodKey)
            ep == Known(call.ctx, EndpointKey)
        IN  /\ HasPart(line, "MethodRoute") <=> (m /\ ep)
            /\ HasPart(line, "Method") <=> (m /\ ~ep)
            /\ HasPart(line, "Route") <=> (~m /\ ep)
            /\ \A i \in Parts(line, "MethodRoute") :
                  /\ line[i].a = Held(call.ctx, MethodKey)
                  /\ line[i].b = Held(call.ctx, EndpointKey)
            /\ \A i \in Parts(line, "Method") :
                  line[i].a = Held(call.ctx, MethodKey)
            /\ \A i \in Parts(line, "Route") :
                  line[i].a = Held(call.ctx, EndpointKey)

\* Only the endpoint is known: the line has the Route part alone.
C6_Witness ==
    /\ IsMandatory
    /\ ~Known(call.ctx, MethodKey) /\ Known(call.ctx, EndpointKey)
    /\ HasPart(emitted.formatted, "Route")
    /\ ~HasPart(emitted.formatted, "Method")
    /\ ~HasPart(emitted.formatted, "MethodRoute")

Mode ==
    IF built.config.nil THEN "console"
    ELSE IF built.config.Type # "" THEN built.config.Type
         ELSE IF built.config.LogFile # "" THEN "all" ELSE "console"

IsLine == emitted.layout \in {"simple", "mandatory"}

\* C8: a logging call writes a line to the console if and only if the mode is
\* console or all, and to the file if and only if the mode is file or all and
\* the handle is open; in file mode nothing ever reaches the console, in
\* console mode nothing ever reaches a file.
C8_SinksFollowMode ==
    /\ IsLine =>
          /\ emitted.stream # "none" <=> Mode \in {"console", "all"}
          /\ emitted.file = "written"
                <=> (Mode \in {"file", "all"} /\ call.lg.file = "open")
    /\ Mode \notin {"console", "all"} => sinks.stdout = <<>> /\ sinks.stderr = <<>>
    /\ Mode \notin {"file", "all"} => sinks.file = <<>>

\* A file-only logger wrote a line to its file and nothing to the console.
C8_Witness ==
    /\ IsLine /\ Mode = "file"
    /\ emitted.file = "written" /\ emitted.stream = "none"
    /\ sinks.file # <<>>

\* C9: after Close, a logging call on a logger with file output does not
\* lose its file line silently: the failed write is made visible.
C9_WriteAfterCloseIsLoud ==
    (IsLine /\ call.lg.useFile /\ call.lg.file = "closed")
        => (emitted.file = "written" \/ emitted.surfaced)

\* C10: StartLogger returns no logger and an error when the mode is file or
\* all and LogFile is empty, and when the file cannot be opened; otherwise,
\* with a valid mode, it returns a logger and no error; a nil config or an
\* empty Type defaults to console-only, or to all when LogFile is given.
C10_StartLoggerResult ==
    built.called =>
        LET logFile == IF built.config.nil THEN "" ELSE built.config.LogFile
            needsFile == Mode \in {"file", "all"}
            fails == needsFile /\ (logFile = "" \/ ~built.openOk)
        IN  /\ fails => lg.nil /\ lgErr # ""
            /\ (~fails /\ Mode \in {"console", "file", "all"})
                  => /\ ~lg.nil /\ lgErr = ""
                     /\ lg.enableConsole <=> Mode \in {"console", "all"}
                     /\ lg.useFile <=> needsFile
                     /\ lg.file # "nil" <=> needsFile
            /\ (built.config.nil \/ (built.config.Type = "" /\ logFile = ""))
                  => ~lg.nil /\ lg.enableConsole /\ ~lg.useFile
            /\ (~built.config.nil /\ built.config.Type = "" /\ logFile # ""
                  /\ built.openOk)
                  => ~lg.nil /\ lg.enableConsole /\ lg.useFile

\* Type file without LogFile: no logger, an error.
C10_Witness ==
    /\ built.called
    /\ ~built.config.nil
    /\ built.config.Type = "file" /\ built.config.LogFile = ""
    /\ lg.nil /\ lgErr = ErrLogFileRequired

---------------------------------------------------------------------------
(* Properties of the middleware *)

\* A request that went through StartFromHTTPRequestInfo.
MwLogged == mw.pc # "idle" /\ ~mw.skipped
MwDone == mw.pc = "done" /\ ~mw.skipped

MwListed == mw.request.Path \in mw.config.SkipPaths

\* C11: the middleware chooses the level of the STOP line from the status the
\* handler set: below 300 SUCCESS, 300 to 399 WARNING, 400 and above ERROR;
\* a handler that never sets a status counts as 200 and gives SUCCESS.
C11_LevelFromStatus ==
    MwDone =>
        LET status == mw.rw.statusCode
        IN  /\ emitted.op = "Stop" /\ emitted.entry.Flag = FlagStop
            /\ \A i \in Parts(emitted.formatted, "Level") :
                  emitted.formatted[i].a = emitted.level
            /\ status < 300 => emitted.level = "SUCCESS"
            /\ (status >= 300 /\ status <= 399) => emitted.level = "WARNING"
            /\ status >= 400 => emitted.level = "ERROR"
            /\ mw.rw.headers = <<>>
                  => status = 200 /\ emitted.level = "SUCCESS"

\* The handler answered 404: the STOP line is an ERROR line.
C11_Witness ==
    /\ MwDone
    /\ mw.rw.headers = <<404>>
    /\ emitted.entry.Flag = FlagStop /\ emitted.level = "ERROR"

\* C12: for a request whose path equals an entry of SkipPaths the middleware
\* emits no START and no STOP line and invokes the wrapped handler once, with
\* the request and the response writer it received; for any other request it
\* emits both lines.
C12_SkipPaths ==
    /\ (mw.pc # "idle" /\ MwListed) =>
          /\ call.n = mw.n0
          /\ \A k \in DOMAIN sinks : \A i \in 1..Len(sinks[k]) :
                sinks[k][i].n <= mw.n0
          /\ mw.calls = 1
          /\ mw.given = mw.request
          /\ mw.writer = "original"
    /\ (mw.pc = "done" /\ ~MwListed) =>
          /\ call.n = mw.n0 + 2
          /\ emitted.entry.Flag = FlagStop
          /\ mw.calls = 1

\* A request for a skipped path was served without a line.
C12_Witness ==
    /\ mw.pc = "done" /\ MwListed
    /\ mw.request.Path = "/health"
    /\ call.n = mw.n0 /\ mw.calls = 1

\* C13: for a request that is not skipped the middleware emits the START
\* line, then invokes the handler once with a request whose context is the
\* carrier StartFromHTTPRequestInfo returned, and after the handler returned
\* emits the STOP line for that carrier; each happens once, in this order.
C13_StartHandlerStop ==
    MwLogged =>
        /\ mw.given.ctx = mw.carrier
        /\ mw.writer = "wrapped"
        /\ mw.calls = 1
        /\ IsSet(mw.carrier, UUIDKey)
        /\ mw.request.Method # ""
              => Held(mw.given.ctx, MethodKey) = mw.request.Method
        /\ mw.request.Path # ""
              => Held(mw.given.ctx, EndpointKey) = mw.request.Path
        /\ mw.config.ServiceName # ""
              => Held(mw.given.ctx, ServiceNameKey) = mw.config.ServiceName
        /\ call.ctx = mw.carrier
        /\ mw.pc = "handler"
              => /\ call.n = mw.n0 + 1
                 /\ emitted.op = "StartFromHTTPRequestInfo"
                 /\ emitted.entry.Flag = FlagStart
        /\ mw.pc = "done"
              => /\ call.n = mw.n0 + 2
                 /\ emitted.op = "Stop"
                 /\ emitted.entry.Flag = FlagStop

\* The handler of a request that came with its own context ran on the seeded
\* carrier, and the STOP line followed.
C13_Witness ==
    /\ MwDone
    /\ mw.request.ctx # mw.carrier
    /\ mw.given.ctx = mw.carrier
    /\ Held(mw.given.ctx, ServiceNameKey) = "svc"
    /\ emitted.entry.Flag = FlagStop

\* Everything the handler wrote, in order.
RECURSIVE Written(_)
Written(chunks) ==
    IF chunks = <<>> THEN "" ELSE Head(chunks) \o Written(Tail(chunks))

\* C14: the Body of the STOP line is everything the wrapped handler wrote to
\* the response: the concatenation of all chunks, in order.
C14_BodyIsAllWritten ==
    MwDone =>
        /\ emitted.entry.Body = Written(mw.rw.chunks)
        /\ \A i \in Parts(emitted.formatted, "Body") :
              emitted.formatted[i].a = Written(mw.rw.chunks)

---------------------------------------------------------------------------
(* Properties of the request variants, the call-site and the carriers *)

FromRequestOps == {"StartFromRequest", "StartFromHTTPRequestInfo"}

\* What the request or adapter of the last call gives for method and path.
DerivedFrom(field) == IF call.req.nil THEN "" ELSE call.req[field]

\* The carrier a request variant starts from: a new context.Background() in
\* StartFromRequest, the adapter's Context() in StartFromHTTPRequestInfo.
BaseCarrier ==
    IF emitted.op = "StartFromHTTPRequestInfo" THEN call.req.ctx ELSE Background

\* The carrier holds for key the config value when it is non-empty, else the
\* derived value.
Overrides(key, configured, derived) ==
    /\ configured # "" => Held(call.ctx, key) = configured
    /\ (configured = "" /\ derived # "") => Held(call.ctx, key) = derived

\* C15: in StartFromRequest and StartFromHTTPRequestInfo the carrier's method
\* and endpoint are those derived from the request or adapter, unless a
\* non-empty config.Method or config.Endpoint overrides them; an empty config
\* value erases nothing, and with an empty derived value the key is unset.
C15_DerivedUnlessConfigured ==
    (IsMandatory /\ emitted.op \in FromRequestOps) =>
        /\ Overrides(MethodKey, call.config.Method, DerivedFrom("Method"))
        /\ Overrides(EndpointKey, call.config.Endpoint, DerivedFrom("Path"))
        /\ (call.config.Method = "" /\ DerivedFrom("Method") = "")
              => ~IsSet(call.ctx, MethodKey)
        /\ (call.config.Endpoint = "" /\ DerivedFrom("Path") = "")
              => ~IsSet(call.ctx, EndpointKey)

\* C15 as amended: as above, but with an empty config value and an empty
\* derived value the call adds nothing for the key: the carrier reads for it
\* what the carrier the call started from reads (nothing in StartFromRequest,
\* which starts from an empty carrier; in StartFromHTTPRequestInfo whatever
\* the adapter's Context() holds).
C15_DerivedElseInherited ==
    (IsMandatory /\ emitted.op \in FromRequestOps) =>
        /\ Overrides(MethodKey, call.config.Method, DerivedFrom("Method"))
        /\ Overrides(EndpointKey, call.config.Endpoint, DerivedFrom("Path"))
        /\ (call.config.Method = "" /\ DerivedFrom("Method") = "")
              => /\ IsSet(call.ctx, MethodKey) <=> IsSet(BaseCarrier, MethodKey)
                 /\ Held(call.ctx, MethodKey) = Held(BaseCarrier, MethodKey)
        /\ (call.config.Endpoint = "" /\ DerivedFrom("Path") = "")
              => /\ IsSet(call.ctx, EndpointKey)
                       <=> IsSet(BaseCarrier, EndpointKey)
                 /\ Held(call.ctx, EndpointKey) = Held(BaseCarrier, EndpointKey)

\* A request with method and path, a config that names another endpoint
\* only: the method is the request's, the endpoint the config's.
C15_Witness ==
    /\ IsMandatory /\ emitted.op \in FromRequestOps
    /\ call.req.Method = "GET" /\ call.req.Path = "/p"
    /\ call.config.Method = "" /\ call.config.Endpoint = "/q"
    /\ Held(call.ctx, MethodKey) = "GET"
    /\ Held(call.ctx, EndpointKey) = "/q"

\* C16: in every simple-layout line the call-site is the frame of the user
\* code that called the logging method, never a frame of the package.
C16_CallerIsUserFrame ==
    emitted.layout = "simple" =>
        /\ HasPart(emitted.formatted, "Caller")
        /\ \A i \in Parts(emitted.formatted, "Caller") :
              emitted.formatted[i].a = "user"

AllKeys == StringKeys \cup {StartTimeKey}

\* What reading every key on a carrier yields.
Reads(c) ==
    [key \in AllKeys |->
        IF c.nil THEN <<FALSE, "", 0>>
        ELSE <<Value(c, key).ok, Value(c, key).val, Value(c, key).t>>]

\* The keys entry j set itself, on top of the carrier it was derived from.
OwnKeys(j) ==
    LET base == OrBackground(store[store[j].parent].ctx).chain
        own == store[j].ctx.chain
    IN  {own[x].key : x \in (Len(base) + 1)..Len(own)}

\* A derived carrier reads, for every key it did not set itself, what the
\* carrier it was derived from reads: nothing a sibling set.
SiblingsIsolated ==
    \A j \in DOMAIN store :
        store[j].parent > 0 =>
            \A key \in AllKeys \ OwnKeys(j) :
                Reads(store[j].ctx)[key]
                    = Reads(OrBackground(store[store[j].parent].ctx))[key]

\* C17: every with-X operation and every Start variant returns a new carrier
\* and leaves the carrier it was given unchanged: reading any key on any
\* carrier obtained earlier yields what it yielded before, and a value set on
\* one derived carrier is not visible on a sibling.
C17_CarriersImmutable ==
    [][/\ \A i \in DOMAIN store :
             /\ i \in DOMAIN store'
             /\ store'[i].ctx.nil = store[i].ctx.nil
             /\ Reads(store'[i].ctx) = Reads(store[i].ctx)
       /\ SiblingsIsolated']_vars

\* Two carriers derived from the same one, each with its own service name,
\* the parent with none.
C17_Witness ==
    \E j, k \in DOMAIN store :
        /\ j # k /\ store[j].parent = store[k].parent /\ store[j].parent > 0
        /\ Held(store[j].ctx, ServiceNameKey) = "svc"
        /\ Held(store[k].ctx, ServiceNameKey) = "svc2"
        /\ ~IsSet(store[store[j].parent].ctx, ServiceNameKey)

\* The layers of a carrier that set key.
LayersOf(c, key) ==
    IF c.nil THEN {} ELSE {x \in 1..Len(c.chain) : c.chain[x].key = key}

\* x is the nearest layer of c that set key.
IsNearest(c, key, x) ==
    x \in LayersOf(c, key) /\ \A y \in LayersOf(c, key) : y <= x

StartTimeRead(c) ==
    LET st == getStartTimeFromContext(c)
    IN  /\ st.ok <=> LayersOf(c, StartTimeKey) # {}
        /\ \A x \in LayersOf(c, StartTimeKey) :
              IsNearest(c, StartTimeKey, x) => st.t = c.chain[x].t

\* C18: get(key, default) returns the value of the nearest carrier in the
\* chain that set the key, whatever that value is, and default exactly when
\* no carrier in the chain set it or the carrier is nil.
C18_GetNearestOrDefault ==
    \A i \in DOMAIN store :
        LET c == store[i].ctx
        IN  /\ \A key \in StringKeys :
                  LET got == getValueFromContext(c, key, "dflt")
                  IN  /\ LayersOf(c, key) = {} => got = "dflt"
                      /\ \A x \in LayersOf(c, key) :
                            IsNearest(c, key, x) => got = c.chain[x].val
            /\ StartTimeRead(c)

\* C18 as amended: get(key, default) returns the value of the nearest
\* carrier that set the key when that value is not the empty string; it
\* returns default when no carrier set the key, when the carrier is nil, and
\* when the nearest value is the empty string (an empty override hides the
\* inherited value and reads as default).
C18_GetNearestNonEmptyOrDefault ==
    \A i \in DOMAIN store :
        LET c == store[i].ctx
        IN  /\ \A key \in StringKeys :
                  LET got == getValueFromContext(c, key, "dflt")
                  IN  /\ LayersOf(c, key) = {} => got = "dflt"
                      /\ \A x \in LayersOf(c, key) :
                            IsNearest(c, key, x) =>
                                got = IF c.chain[x].val # ""
                                      THEN c.chain[x].val ELSE "dflt"
            /\ StartTimeRead(c)

\* A carrier overrides the service name it inherits with the empty string:
\* it reads the default, the carrier it was derived from reads its value.
C18_Witness ==
    \E j \in DOMAIN store :
        /\ store[j].parent > 0
        /\ getValueFromContext(store[store[j].parent].ctx, ServiceNameKey,
                               "dflt") = "svc"
        /\ ServiceNameKey \in OwnKeys(j)
        /\ \A x \in LayersOf(store[j].ctx, ServiceNameKey) :
              IsNearest(store[j].ctx, ServiceNameKey, x)
                  => store[j].ctx.chain[x].val = ""
        /\ getValueFromContext(store[j].ctx, ServiceNameKey, "dflt") = "dflt"

---------------------------------------------------------------------------
(* Properties of the writes *)

Last(q) == q[Len(q)]

Serials(q) == {q[i].n : i \in 1..Len(q)}

\* The line of the last call is the last thing in every sink that call's
\* logger had enabled.
WrittenOnReturn ==
    (IsLine /\ call.n > 0) =>
        /\ call.lg.enableConsole =>
              LET k == IF emitted.level = "ERROR" THEN "stderr" ELSE "stdout"
              IN  sinks[k] # <<>> /\ Last(sinks[k]) = Chunk(call.n, "line")
        /\ (call.lg.useFile /\ call.lg.file = "open") =>
              sinks.file # <<>> /\ Last(sinks.file) = Chunk(call.n, "line")

\* Each sink holds the lines in the order of the calls.
InCallOrder ==
    \A k \in DOMAIN sinks : \A i, j \in 1..Len(sinks[k]) :
        i < j => sinks[k][i].n < sinks[k][j].n

C20_LinesContiguous ==
    \A k \in DOMAIN sinks : \A i \in 1..Len(sinks[k]) :
        LET q == sinks[k]
        IN  /\ q[i].unit = "text" =>
                  \/ i = Len(q)
                  \/ q[i + 1] = Chunk(q[i].n, "newline")
            /\ q[i].unit = "newline" =>
                  i > 1 /\ q[i - 1] = Chunk(q[i].n, "text")
            /\ \A j \in 1..Len(q) : (j # i /\ q[j].n = q[i].n) =>
                  /\ q[i].unit # "line"
                  /\ q[i].unit # q[j].unit

\* Two goroutines were inside their calls at the same time: the console has
\* their lines in one order, the file in the other.
C20_Witness ==
    /\ Len(sinks.stdout) = 2 /\ Len(sinks.file) = 2
    /\ sinks.stdout[1].n = sinks.file[2].n
    /\ sinks.stdout[2].n = sinks.file[1].n
    /\ sinks.stdout[1].n # sinks.stdout[2].n

---------------------------------------------------------------------------
(* Properties of the ids, the colors and the streams *)

CtxOps == {MethodName(level) \o x : level \in SimpleLevels, x \in {"Ctx", "fCtx"}}

\* The last call was one of the Ctx methods.
IsCtxLine == emitted.layout = "simple" /\ emitted.op \in CtxOps

\* C21: for a carrier on which a unique-id was set by WithUUID or
\* WithNewUUID, and for every carrier derived from it that does not set the
\* unique-id again, every ErrorCtx .. InfoCtx call and f variant renders that
\* id, whatever the number of calls.  (An empty string is no id: a carrier
\* whose nearest unique-id is "" renders an id generated by the call.)
C21_SameIdOnSameCarrier ==
    IsCtxLine =>
        /\ Cardinality(Parts(emitted.formatted, "UUID")) = 1
        /\ \A i \in Parts(emitted.formatted, "UUID") :
              /\ Held(call.ctx, UUIDKey) # ""
                    => emitted.formatted[i].a = Held(call.ctx, UUIDKey)
              /\ Held(call.ctx, UUIDKey) = ""
                    => emitted.formatted[i].a \in FreshIds(call.cnt)

\* The second call, on a carrier that inherits its id from the carrier it was
\* derived from, renders the inherited id.
C21_Witness ==
    /\ IsCtxLine /\ call.n = 2
    /\ Len(call.ctx.chain) = 2
    /\ call.ctx.chain[1].key = UUIDKey /\ call.ctx.chain[1].val = "u1"
    /\ call.ctx.chain[2].key = ServiceNameKey
    /\ \E i \in Parts(emitted.formatted, "UUID") : emitted.formatted[i].a = "u1"

\* Bytes with the ANSI color prefix and the reset removed.
StripColor(b) == [b EXCEPT !.prefix = "none", !.reset = FALSE]

\* C22: in mode all the line written to the file is the text written to the
\* console with the ANSI color prefix and reset removed, and the console
\* color depends only on the level: ERROR red, WARNING yellow, SUCCESS green,
\* INFO cyan, any other level uncolored.
C22_FileIsConsoleUncolored ==
    (IsLine /\ Mode = "all" /\ call.lg.file = "open") =>
        /\ emitted.filed # NoBytes
        /\ emitted.filed = StripColor(emitted.console)
        /\ emitted.filed.text = emitted.formatted
        /\ emitted.filed.newline
        /\ emitted.console.reset <=> emitted.console.prefix # "none"
        /\ emitted.level = "ERROR" => emitted.console.prefix = "red"
        /\ emitted.level = "WARNING" => emitted.console.prefix = "yellow"
        /\ emitted.level = "SUCCESS" => emitted.console.prefix = "green"
        /\ emitted.level = "INFO" => emitted.console.prefix = "cyan"
        /\ emitted.level \notin SimpleLevels => emitted.console.prefix = "none"

\* A WARNING line in mode all: yellow on the console, plain in the file.
C22_Witness ==
    /\ IsLine /\ Mode = "all" /\ call.lg.file = "open"
    /\ emitted.level = "WARNING"
    /\ emitted.console.prefix = "yellow" /\ emitted.console.reset
    /\ emitted.filed.prefix = "none" /\ ~emitted.filed.reset
    /\ emitted.filed.text = emitted.console.text
    /\ sinks.file # <<>> /\ sinks.stdout # <<>>

\* C23: with console output enabled a line of level ERROR is written to the
\* error stream and a line of any other level to the standard stream, in
\* both layouts; no line is written to both streams.
C23_StreamByLevel ==
    /\ (IsLine /\ call.lg.enableConsole) =>
          /\ emitted.level = "ERROR"
                => /\ emitted.stream = "stderr"
                   /\ call.n \in Serials(sinks.stderr)
                   /\ call.n \notin Serials(sinks.stdout)
          /\ emitted.level # "ERROR"
                => /\ emitted.stream = "stdout"
                   /\ call.n \in Serials(sinks.stdout)
                   /\ call.n \notin Serials(sinks.stderr)
    /\ Serials(sinks.stdout) \cap Serials(sinks.stderr) = {}

\* A mandatory-layout line of an unrecognized level went to the standard
\* stream, after an ERROR line that went to the error stream.
C23_Witness ==
    /\ IsMandatory /\ call.lg.enableConsole
    /\ emitted.level = "DEBUG"
    /\ call.n = 2
    /\ Serials(sinks.stdout) = {2}
    /\ Serials(sinks.stderr) = {1}

---------------------------------------------------------------------------
(* Properties of the lifecycle *)

\* The line shows level and message.
Shows(level, message) ==
    /\ emitted.level = level
    /\ emitted.entry.LogLevel = level
    /\ emitted.entry.Message = message
    /\ \E i \in Parts(emitted.formatted, "Level") : emitted.formatted[i].a = level
    /\ \E i \in Parts(emitted.formatted, "Message") :
          emitted.formatted[i].a = message

\* C24: every Start variant emits its START line with level INFO when
\* config.Level is empty and message "Request started" when config.Message
\* is empty; Stop emits its STOP line with level SUCCESS when level is empty
\* and message "Request completed" when message is empty; non-empty ones are
\* used unchanged.
C24_Defaults ==
    /\ (IsMandatory /\ emitted.op \in StartOps) =>
          /\ emitted.entry.Flag = FlagStart
          /\ Shows(IF call.config.Level = "" THEN "INFO" ELSE call.config.Level,
                   IF call.config.Message = "" THEN "Request started"
                   ELSE call.config.Message)
    /\ (IsMandatory /\ emitted.op = "Stop") =>
          /\ emitted.entry.Flag = FlagStop
          /\ Shows(IF call.config.Level = "" THEN "SUCCESS"
                   ELSE call.config.Level,
                   IF call.config.Message = "" THEN "Request completed"
                   ELSE call.config.Message)

\* Stop with an empty level and a message of its own, after a Start variant:
\* level SUCCESS, the message as given.
C24_Witness ==
    /\ IsMandatory /\ emitted.op = "Stop" /\ call.n = 2
    /\ call.config.Level = "" /\ call.config.Message = "bye"
    /\ Shows("SUCCESS", "bye")

\* The milliseconds of the last line's entry.
EntryMs(e) == e.entry.ExecutionTime[1]

\* The lines a call adds to the sinks of its logger.
LinesOf(e) ==
    (IF e.stream # "none" THEN 1 ELSE 0) + (IF e.file = "written" THEN 1 ELSE 0)

\* C25: Stop keeps no per-request state: each call of Stop on a carrier emits
\* exactly one more STOP line, is never refused, leaves the carrier unchanged,
\* and computes the line's duration from the start-time recorded on the
\* carrier, so the durations of successive calls on one carrier do not
\* decrease.
C25_StopRepeats ==
    [][(emitted'.op = "Stop" /\ call'.n = call.n + 1) =>
          LET c == call'.ctx
          IN  /\ emitted'.layout = "mandatory"
              /\ emitted'.entry.Flag = FlagStop
              /\ Lines(sinks') = Lines(sinks) + LinesOf(emitted')
              /\ LinesOf(emitted') >= 1
              /\ store' = store /\ ctx' = ctx
              /\ \E i \in DOMAIN store : store[i].ctx = c
              /\ IsSet(c, StartTimeKey)
                    => TruncatedMs(call'.t - Value(c, StartTimeKey).t,
                                   EntryMs(emitted'))
              /\ ~IsSet(c, StartTimeKey) => EntryMs(emitted') = 0
              /\ (emitted.op = "Stop" /\ call.ctx = c)
                    => EntryMs(emitted') >= EntryMs(emitted)]_vars

\* The second Stop on the one carrier that has a unique-id (no id was
\* generated, so both calls were on it), a millisecond after its start-time.
C25_Witness ==
    /\ IsMandatory /\ emitted.op = "Stop" /\ call.n = 2
    /\ uuidCount = 0 /\ Len(store) = 4
    /\ call.ctx = store[4].ctx
    /\ IsSet(call.ctx, UUIDKey) /\ ~IsSet(store[3].ctx, UUIDKey)
    /\ IsSet(call.ctx, StartTimeKey)
    /\ EntryMs(emitted) = 1
    /\ Lines(sinks) = 2

\* The segments that identify the request of a line.
RequestSegments == {"TxnID", "TraceID", "Service", "MethodRoute", "Method", "Route"}

\* What a line shows in the segment seg: its parts, none when it is absent.
Shown(line, seg) == {line[i] : i \in Parts(line, seg)}

\* C26: for every carrier returned by a Start variant, the STOP line that
\* Stop emits on that carrier shows the same TxnID, the same TraceID presence
\* and value, the same Service segment and the same method/endpoint segment
\* as the START line of the Start call.
C26_StartStopCorrelate ==
    [][(/\ IsMandatory /\ emitted.op \in StartOps /\ ctx = call.ctx
        /\ emitted'.op = "Stop" /\ call'.n = call.n + 1
        /\ call'.ctx = call.ctx) =>
          /\ emitted.entry.Flag = FlagStart /\ emitted'.entry.Flag = FlagStop
          /\ \A seg \in RequestSegments :
                Shown(emitted'.formatted, seg) = Shown(emitted.formatted, seg)
          /\ emitted'.entry.TransactionID = emitted.entry.TransactionID
          /\ emitted'.entry.TraceID = emitted.entry.TraceID]_vars

\* Stop on the carrier of a Start with service name, transaction id and
\* trace id: the STOP line shows the three, as the START line did.
C26_Witness ==
    /\ IsMandatory /\ emitted.op = "Stop" /\ call.n = 2
    /\ IsSet(call.ctx, StartTimeKey) /\ IsSet(call.ctx, UUIDKey)
    /\ Shown(emitted.formatted, "TxnID") = {Part("TxnID", "t1", "", 0)}
    /\ Shown(emitted.formatted, "TraceID") = {Part("TraceID", "r1", "", 0)}
    /\ Shown(emitted.formatted, "Service") = {Part("Service", "svc2", "", 0)}

---------------------------------------------------------------------------
(* Properties of construction, the adapter and the recorded status *)

ValidModes == {LogTypeConsole, LogTypeFile, LogTypeAll}

\* C27: every logger that StartLogger returns without error has at least one
\* sink enabled and a mode among console, file, all; a config whose Type is
\* none of these and not empty is rejected with an error.
C27_InvalidTypeRejected ==
    built.called =>
        /\ (~lg.nil /\ lgErr = "")
              => /\ lg.enableConsole \/ lg.useFile
                 /\ Mode \in ValidModes
        /\ Mode \notin ValidModes => lg.nil /\ lgErr # ""

\* C28: StartFromHTTPRequestInfo with a nil adapter does not fail: it starts
\* from an empty carrier, derives no method and no endpoint, emits the START
\* line and returns the seeded carrier.
C28_NilAdapterStarts ==
    (emitted.op = "StartFromHTTPRequestInfo" /\ call.req.nil) =>
        /\ emitted.layout = "mandatory"
        /\ emitted.entry.Flag = FlagStart
        /\ IsSet(call.ctx, UUIDKey) /\ IsSet(call.ctx, StartTimeKey)
        /\ ~IsSet(call.ctx, MethodKey) /\ ~IsSet(call.ctx, EndpointKey)

\* The status the client received: the one that went out, 200 when the
\* handler returned without writing anything.
StatusSent(rw) == IF rw.sent = 0 THEN StatusOK ELSE rw.sent

\* C29: the status the middleware uses to pick the STOP level is the status
\* sent to the client: whatever WriteHeader and Write calls the handler made,
\* the recorded status is the first status that took effect on the
\* underlying response writer.
C29_RecordedIsSent ==
    MwDone =>
        /\ mw.rw.statusCode = StatusSent(mw.rw)
        /\ StatusSent(mw.rw) >= 400 <=> emitted.level = "ERROR"
        /\ StatusSent(mw.rw) < 300 <=> emitted.level = "SUCCESS"

\* Two carriers hold the same value for key; unique-ids that the two calls
\* generated themselves are the same when both are generated ids.
SameValue(a, b, key, generated) ==
    IF generated
    THEN /\ Held(a, key) \in FreshIds(0) /\ Held(b, key) \in FreshIds(0)
    ELSE Reads(a)[key] = Reads(b)[key]

\* C30: StartFromRequest(r, config) and StartFromHTTPRequestInfo on the
\* default adapter wrapping the same r return carriers with the same values
\* for every key, values inherited from the request's own context included,
\* and emit START lines with the same level, fields, body and message.
C30_RequestVariantsAgree ==
    [][(/\ emitted.op = "StartFromRequest"
        /\ emitted'.op = "StartFromHTTPRequestInfo"
        /\ call'.n = call.n + 1
        /\ call'.req = call.req /\ call'.config = call.config) =>
          LET a == call.ctx
              b == call'.ctx
              gen == call.config.TransactionID = ""
              e == emitted.entry
              f == emitted'.entry
          IN  /\ \A key \in AllKeys : SameValue(a, b, key, gen /\ key = UUIDKey)
              /\ emitted'.layout = emitted.layout
              /\ f.LogLevel = e.LogLevel /\ f.Flag = e.Flag
              /\ f.Message = e.Message /\ f.Body = e.Body
              /\ f.ServiceName = e.ServiceName
              /\ f.Endpoint = e.Endpoint /\ f.MethodType = e.MethodType
              /\ ~gen => /\ f.TransactionID = e.TransactionID
                         /\ f.TraceID = e.TraceID]_vars

====
